---- MODULE Spec2Model ----
(***************************************************************************)
(* State-machine model of the PDF editor page (PdfEditor component,        *)
(* src/unnamed/part_008): React state, refs, the two canvases and the      *)
(* asynchronous load / render / export tasks.                              *)
(*                                                                         *)
(* Numbers: lengths are whole PDF points; the zoom scale is kept in        *)
(* hundredths (150 stands for 1.5); screen coordinates produced by the     *)
(* coordinate conversion are kept in hundredths of a pixel.  Page sizes    *)
(* are multiples of 100 points, so every product the code forms is exact   *)
(* in these units.  Texts are sequences of one-character strings.          *)
(* The progress percentage (useState at line 72) is display only and is    *)
(* not part of the model.                                                  *)
(***************************************************************************)
EXTENDS Integers, Sequences, FiniteSets, TLC

(***************************************************************************)
(* Bounds of the model.                                                    *)
(***************************************************************************)
\* in-flight loadPdf calls
MaxLoads == 1
\* in-flight renderPage calls
MaxRenders == 2
\* in-flight exportPdf calls
MaxExports == 1
\* entries of the annotation collection
MaxAnnotations == 1
\* points of one annotation path
MaxPath == 2
\* files handed to the download step
MaxDownloads == 2
\* invocations of the edge function at an await at one time
MaxRequests == 2
\* the last minute of the clock
MaxClock == 95
\* the fit buttons are followed while the scale they compute stays within
\* -ScaleWindow .. ScaleWindow (hundredths)
ScaleWindow == 400

(***************************************************************************)
(* Program constants.                                                      *)
(***************************************************************************)
\* useState(1.5), setScale(1.5)
DefaultScale == 150
\* 60 * 60 * 1000 ms, in minutes
OneHour == 60
\* maxSize = 10 * 1024 * 1024, in MB
MaxTotalMB == 10
\* handleZoomIn / handleZoomOut step 0.25
ZoomStep == 25
\* Math.min(prev + 0.25, 3)
MaxScale == 300
\* Math.max(prev - 0.25, 0.5)
MinScale == 50
\* pdfFile.size > 50 * 1024 * 1024, in MB
MaxFileMB == 50
\* clientWidth - 100, clientHeight - 100
ContainerMargin == 100
\* Math.max(screenWidth, 30), in hundredths of a pixel
MinScreenWidth == 3000
\* Math.max(screenHeight, 15), in hundredths of a pixel
MinScreenHeight == 1500
\* const padding = 2 of exportPdf
ExportPadding == 2
\* fontSize fallback ... || 12
DefaultFontSize == 12
\* a new <canvas> element is 300 x 150
CanvasDefaultWidth == 300
CanvasDefaultHeight == 150

NoDoc == "none"
NoRef == [none |-> TRUE]
NullEntry == [null |-> TRUE]

Min(a, b) == IF a < b THEN a ELSE b
Max(a, b) == IF a > b THEN a ELSE b
Abs(a) == IF a < 0 THEN 0 - a ELSE a
\* JavaScript a || b on numbers: 0 is falsy
OrElse(a, b) == IF a # 0 THEN a ELSE b

(***************************************************************************)
(* The files a user can drop, and what the two PDF libraries report for    *)
(* them.                                                                   *)
(***************************************************************************)
Files == {"a.pdf", "b.pdf", "bad.pdf", "torn.pdf", "pic.png", "big.pdf"}

FileType(f) == IF f = "pic.png" THEN "image/png" ELSE "application/pdf"

FileSizeMB(f) == IF f = "big.pdf" THEN 51 ELSE 1

\* pdfjsLib.getDocument resolves for these files and rejects for the others
Parses(f) == f \in {"a.pdf", "b.pdf", "torn.pdf", "big.pdf"}

\* page.getTextContent rejects for a file whose page stream is damaged
ExtractFails(f) == f = "torn.pdf"

numPages(f) == IF f = "a.pdf" THEN 2 ELSE 1

\* viewport of getViewport({scale: 1.0}) / page.getSize(): <<width, height>>
PageSize(f, pageNum) ==
  IF f = "a.pdf" /\ pageNum = 2 THEN <<300, 200>> ELSE <<200, 300>>

Black == [r |-> 0, g |-> 0, b |-> 0]
Red == [r |-> 255, g |-> 0, b |-> 0]
NoColor == [none |-> TRUE]
NoTransform == <<>>

\* textContent.items of a page: str, transform [a, b, c, d, e, f], width,
\* height, fontName ("" when absent), color
PageItems(f, pageNum) ==
  IF f = "a.pdf" /\ pageNum = 1 THEN
    << [str |-> <<"H", "i">>, transform |-> <<10, 0, 0, 10, 20, 250>>,
        width |-> 12, height |-> 10, fontName |-> "g_d0_f1", color |-> NoColor],
       [str |-> <<" ">>, transform |-> <<10, 0, 0, 10, 40, 250>>,
        width |-> 0, height |-> 0, fontName |-> "", color |-> NoColor],
       [str |-> <<>>, transform |-> <<10, 0, 0, 10, 60, 250>>,
        width |-> 0, height |-> 0, fontName |-> "", color |-> NoColor],
       [str |-> <<"X">>, transform |-> NoTransform,
        width |-> 6, height |-> 10, fontName |-> "", color |-> NoColor] >>
  ELSE IF f = "a.pdf" /\ pageNum = 2 THEN
    << [str |-> <<"A">>, transform |-> <<8, 0, 0, 12, 150, 100>>,
        width |-> 40, height |-> 20, fontName |-> "g_d0_f2", color |-> Red] >>
  ELSE IF f = "b.pdf" THEN
    << [str |-> <<"B">>, transform |-> <<0, 0, 0, 0, 30, 350>>,
        width |-> 6, height |-> 0, fontName |-> "", color |-> NoColor] >>
  ELSE << >>

VARIABLES
  \* React state (useState, lines 58-73)
  file, pdfDoc, currentPage, totalPages, scale, textItems, annotations,
  editingMode, selectedTool, isProcessing, currentViewport,
  \* refs and the DOM elements behind them (lines 75-80)
  canvas, annotationCanvas, isDrawingRef, currentAnnotationRef,
  \* asynchronous calls in flight
  loads, renders, exports,
  \* what the user is shown and handed
  toast, downloads,
  \* the component tree was unmounted by an uncaught error in an effect
  crashed,
  \* history: the page asked for by the last click on a page control and
  \* the id given to the last updateTextItem call, each with a bit that
  \* flips at every such click or call
  lastNav, lastUpdate,
  \* the clipboard service (edge function, table public.clips, bucket
  \* clipboard-files):
  \* the rows of public.clips by access code
  clips,
  \* the object paths stored in the bucket clipboard-files
  storage,
  \* now() / Date.now(), in minutes
  clock,
  \* the invocations of the edge function that are at an await
  requests,
  \* the last Response an invocation returned
  response

editorVars == << file, pdfDoc, currentPage, totalPages, scale, textItems,
                 annotations, editingMode, selectedTool, isProcessing,
                 currentViewport, canvas, annotationCanvas, isDrawingRef,
                 currentAnnotationRef, loads, renders, exports, toast,
                 downloads, crashed, lastNav, lastUpdate >>

serverVars == << clips, storage, clock, requests, response >>

vars == << editorVars, serverVars >>

NoViewport == [none |-> TRUE]
NoCanvas == [none |-> TRUE]
NoToast == "none"

\* a freshly mounted <canvas>: default size, nothing painted
BlankCanvas ==
  [width |-> CanvasDefaultWidth, height |-> CanvasDefaultHeight,
   doc |-> NoDoc, pageNum |-> 0, scale |-> 0, covered |-> FALSE]

BlankAnnotationCanvas ==
  [width |-> CanvasDefaultWidth, height |-> CanvasDefaultHeight,
   shapes |-> << >>]

(***************************************************************************)
(* extractTextFromPdf: one TextItem per item that has a string and a       *)
(* transform.                                                              *)
(***************************************************************************)
ItemFontSize(item) ==
  OrElse(Abs(item.transform[1]),
         OrElse(Abs(item.transform[4]), OrElse(item.height, DefaultFontSize)))

\* item.str.length * fontSize * 0.6
FallbackWidth(item) == (Len(item.str) * ItemFontSize(item) * 6) \div 10

ItemColor(item) == IF item.color = NoColor THEN Black ELSE item.color

\* viewport.height - y
TopLeftY(pageHeight, y) == pageHeight - y

ExtractItem(f, pageNum, index, item) ==
  [id |-> <<pageNum, index>>,
   text |-> item.str,
   x |-> OrElse(item.transform[5], 0),
   y |-> TopLeftY(PageSize(f, pageNum)[2], OrElse(item.transform[6], 0)),
   width |-> OrElse(item.width, FallbackWidth(item)),
   height |-> OrElse(item.height, ItemFontSize(item)),
   fontSize |-> ItemFontSize(item),
   fontName |-> IF item.fontName = "" THEN "Helvetica" ELSE item.fontName,
   color |-> ItemColor(item),
   rotation |-> 0,
   pageIndex |-> pageNum - 1,
   pageWidth |-> PageSize(f, pageNum)[1],
   pageHeight |-> PageSize(f, pageNum)[2]]

\* if (item.str && item.transform)
ItemKept(item) == item.str # << >> /\ item.transform # NoTransform

RECURSIVE ExtractFrom(_, _, _)
\* the forEach of one page, from index i (0-based) on
ExtractFrom(f, pageNum, i) ==
  IF i >= Len(PageItems(f, pageNum)) THEN << >>
  ELSE LET item == PageItems(f, pageNum)[i + 1]
       IN (IF ItemKept(item) THEN << ExtractItem(f, pageNum, i, item) >>
           ELSE << >>) \o ExtractFrom(f, pageNum, i + 1)

RECURSIVE ExtractPages(_, _)
ExtractPages(f, pageNum) ==
  IF pageNum > numPages(f) THEN << >>
  ELSE ExtractFrom(f, pageNum, 0) \o ExtractPages(f, pageNum + 1)

extractTextFromPdf(f) == ExtractPages(f, 1)

\* textItems.filter((item) => item && item.pageIndex === pageIndex)
getTextItemsForPage(items, pageIndex) ==
  SelectSeq(items, LAMBDA item: item.pageIndex = pageIndex)

(***************************************************************************)
(* renderAnnotations: what ends up on the annotation canvas.  The result   *)
(* is  [threw |-> TRUE]  when an entry of the collection is null (the      *)
(* filter reads a.pageIndex of every entry).                               *)
(***************************************************************************)
\* strokeRect / arc use the first and the last point, polylines every point,
\* each at the stored coordinates
DrawnShape(a) ==
  IF a.type \in {"rectangle", "circle"}
  THEN [type |-> a.type, pts |-> << a.path[1], a.path[Len(a.path)] >>]
  ELSE [type |-> a.type, pts |-> a.path]

\* path.length > 1 (polylines) and path.length >= 2 (rectangle, circle)
Drawable(a) == Len(a.path) >= 2

RECURSIVE DrawAll(_)
DrawAll(as) ==
  IF as = << >> THEN << >>
  ELSE (IF Drawable(Head(as)) THEN << DrawnShape(Head(as)) >> ELSE << >>)
       \o DrawAll(Tail(as))

\* "Draw current annotation if drawing" (lines 354-378)
DraftShape(drawing, draft) ==
  IF drawing /\ draft # NoRef /\ Len(draft.path) > 1
  THEN << [type |-> "draft", pts |-> draft.path] >>
  ELSE << >>

renderAnnotations(anns, pageIndex, cv, acv, drawing, draft) ==
  IF acv = NoCanvas \/ cv = NoCanvas THEN [threw |-> FALSE, canvas |-> acv]
  ELSE LET pageAnnotations == SelectSeq(anns, LAMBDA a: a.pageIndex = pageIndex)
           cleared == [width |-> cv.width, height |-> cv.height, shapes |-> << >>]
       IN IF \E i \in 1..Len(anns) : anns[i] = NullEntry
          THEN [threw |-> TRUE, canvas |-> cleared]
          ELSE IF pageAnnotations = << >> THEN [threw |-> FALSE, canvas |-> cleared]
          ELSE [threw |-> FALSE,
                canvas |-> [cleared EXCEPT !.shapes =
                              DrawAll(pageAnnotations)
                              \o DraftShape(drawing, draft)]]

(***************************************************************************)
(* Initial state: the component as constructed (useState / useRef           *)
(* initial values), the drop zone shown, no canvas mounted.                *)
(***************************************************************************)
(***************************************************************************)
(* The clipboard service: the edge function and the table public.clips.   *)
(***************************************************************************)
\* the codes generateAccessCode can draw (6 to 8 characters of A-Z0-9)
Codes == {"ABC123", "XYZ7890"}

\* the files a multipart request can carry, with File.size in MB
UploadNames == {"f.txt", "g.png", "huge.bin"}

UploadSizeMB(name) ==
  CASE name = "f.txt" -> 1
    [] name = "g.png" -> 4
    [] name = "huge.bin" -> 11

\* no row with that access_code
NoClip == [none |-> TRUE]

NoResponse == [none |-> TRUE]

\* `${accessCode}/${file.name}`
FilePath(code, name) == << code, name >>

Init ==
  /\ clips = [code \in Codes |-> NoClip]
  /\ storage = {}
  /\ clock = 0
  /\ requests = << >>
  /\ response = NoResponse
  /\ file = NoDoc
  /\ pdfDoc = NoDoc
  /\ currentPage = 1
  /\ totalPages = 0
  /\ scale = DefaultScale
  /\ textItems = << >>
  /\ annotations = << >>
  /\ editingMode = "view"
  /\ selectedTool = "pointer"
  /\ isProcessing = FALSE
  /\ currentViewport = NoViewport
  /\ canvas = NoCanvas
  /\ annotationCanvas = NoCanvas
  /\ isDrawingRef = FALSE
  /\ currentAnnotationRef = NoRef
  /\ loads = << >>
  /\ renders = << >>
  /\ exports = << >>
  /\ toast = NoToast
  /\ downloads = << >>
  /\ crashed = FALSE
  /\ lastNav = [target |-> 0, tick |-> 0]
  /\ lastUpdate = [id |-> <<0, 0>>, tick |-> 0]

\* the editor (toolbar, canvases, page controls) is rendered: file is set
EditorShown == file # NoDoc /\ ~crashed

RemoveAt(seq, i) == SubSeq(seq, 1, i - 1) \o SubSeq(seq, i + 1, Len(seq))

(***************************************************************************)
(* The two effects (lines 381-391), run after a state update.  They read   *)
(* the state as updated, so they are written over the primed variables.    *)
(*   rd: a dependency of the render effect changed                         *)
(*       [pdfDoc, currentPage, scale, editingMode, textItems]              *)
(*   ad: a dependency of the annotation effect changed                     *)
(*       [annotations, currentPage, scale]                                 *)
(*   acv: the annotation canvas element as mounted after the update        *)
(***************************************************************************)
NewRender ==
  [pageNum |-> currentPage, doc |-> pdfDoc, scale |-> scale,
   mode |-> editingMode, hasViewport |-> currentViewport # NoViewport,
   hasItems |-> getTextItemsForPage(textItems, currentPage - 1) # << >>,
   anns |-> annotations,
   stage |-> "getPage", detached |-> FALSE]

Effects(rd, ad, acv) ==
  LET live == pdfDoc' # NoDoc /\ currentPage' # 0
      res == renderAnnotations(annotations', currentPage' - 1, canvas', acv,
                               isDrawingRef', currentAnnotationRef')
  IN /\ renders' = IF rd /\ live /\ canvas' # NoCanvas
                   THEN Append(renders, NewRender') ELSE renders
     /\ Len(renders') <= MaxRenders
     /\ crashed' = (ad /\ live /\ res.threw)
     /\ annotationCanvas' = IF ad /\ live /\ ~res.threw THEN res.canvas ELSE acv

(***************************************************************************)
(* onDrop (lines 84-109) and the synchronous start of loadPdf.             *)
(***************************************************************************)
onDrop(f) ==
  /\ UNCHANGED serverVars
  /\ ~crashed
  /\ file = NoDoc
  /\ IF FileType(f) # "application/pdf" THEN
       /\ toast' = "Invalid file"
       /\ UNCHANGED << file, pdfDoc, currentPage, totalPages, scale, textItems,
                       annotations, editingMode, selectedTool, isProcessing,
                       currentViewport, canvas, annotationCanvas, isDrawingRef,
                       currentAnnotationRef, loads, renders, exports,
                       downloads, crashed, lastNav, lastUpdate >>
     ELSE IF FileSizeMB(f) > MaxFileMB THEN
       /\ toast' = "File too large"
       /\ UNCHANGED << file, pdfDoc, currentPage, totalPages, scale, textItems,
                       annotations, editingMode, selectedTool, isProcessing,
                       currentViewport, canvas, annotationCanvas, isDrawingRef,
                       currentAnnotationRef, loads, renders, exports,
                       downloads, crashed, lastNav, lastUpdate >>
     ELSE
       /\ Len(loads) < MaxLoads
       /\ file' = f
       /\ isProcessing' = TRUE
       /\ loads' = Append(loads, [file |-> f, stage |-> "parsing"])
       /\ canvas' = BlankCanvas
       /\ UNCHANGED << pdfDoc, currentPage, totalPages, scale, textItems,
                       annotations, editingMode, selectedTool, currentViewport,
                       isDrawingRef, currentAnnotationRef, exports, toast,
                       downloads, lastNav, lastUpdate >>
       /\ Effects(FALSE, FALSE, BlankAnnotationCanvas)

(***************************************************************************)
(* loadPdf after  await loadingTask.promise  (lines 124-133, 145-153).     *)
(***************************************************************************)
\* variant: the current page is not reset
loadPdfParsed_KeepPage(i) ==
  /\ UNCHANGED serverVars
  /\ ~crashed
  /\ i \in 1..Len(loads)
  /\ loads[i].stage = "parsing"
  /\ LET f == loads[i].file IN
     IF Parses(f) THEN
       /\ pdfDoc' = f
       /\ totalPages' = numPages(f)
       /\ textItems' = << >>
       /\ annotations' = << >>
       /\ scale' = DefaultScale
       /\ loads' = [loads EXCEPT ![i].stage = "extracting"]
       /\ UNCHANGED << file, currentPage, editingMode, selectedTool, isProcessing,
                       currentViewport, canvas, isDrawingRef,
                       currentAnnotationRef, exports, toast, downloads,
                       lastNav, lastUpdate >>
       /\ Effects(TRUE, TRUE, annotationCanvas)
     ELSE
       /\ toast' = "Failed to load PDF"
       /\ isProcessing' = FALSE
       /\ loads' = RemoveAt(loads, i)
       /\ UNCHANGED << file, pdfDoc, currentPage, totalPages, scale, textItems,
                       annotations, editingMode, selectedTool, currentViewport,
                       canvas, annotationCanvas, isDrawingRef,
                       currentAnnotationRef, renders, exports, downloads,
                       crashed, lastNav, lastUpdate >>

loadPdfParsed(i) ==
  /\ UNCHANGED serverVars
  /\ ~crashed
  /\ i \in 1..Len(loads)
  /\ loads[i].stage = "parsing"
  /\ LET f == loads[i].file IN
     IF Parses(f) THEN
       /\ pdfDoc' = f
       /\ totalPages' = numPages(f)
       /\ currentPage' = 1
       /\ textItems' = << >>
       /\ annotations' = << >>
       /\ scale' = DefaultScale
       /\ loads' = [loads EXCEPT ![i].stage = "extracting"]
       /\ UNCHANGED << file, editingMode, selectedTool, isProcessing,
                       currentViewport, canvas, isDrawingRef,
                       currentAnnotationRef, exports, toast, downloads,
                       lastNav, lastUpdate >>
       /\ Effects(TRUE, TRUE, annotationCanvas)
     ELSE
       /\ toast' = "Failed to load PDF"
       /\ isProcessing' = FALSE
       /\ loads' = RemoveAt(loads, i)
       /\ UNCHANGED << file, pdfDoc, currentPage, totalPages, scale, textItems,
                       annotations, editingMode, selectedTool, currentViewport,
                       canvas, annotationCanvas, isDrawingRef,
                       currentAnnotationRef, renders, exports, downloads,
                       crashed, lastNav, lastUpdate >>

(***************************************************************************)
(* loadPdf after  await extractTextFromPdf(pdf)  (lines 136-144, 219).     *)
(***************************************************************************)
loadPdfExtracted(i) ==
  /\ UNCHANGED serverVars
  /\ ~crashed
  /\ i \in 1..Len(loads)
  /\ loads[i].stage = "extracting"
  /\ loads' = RemoveAt(loads, i)
  /\ isProcessing' = FALSE
  /\ LET f == loads[i].file IN
     IF ExtractFails(f) THEN
       /\ toast' = "Failed to load PDF"
       /\ UNCHANGED << file, pdfDoc, currentPage, totalPages, scale, textItems,
                       annotations, editingMode, selectedTool, currentViewport,
                       canvas, annotationCanvas, isDrawingRef,
                       currentAnnotationRef, renders, exports, downloads,
                       crashed, lastNav, lastUpdate >>
     ELSE
       /\ textItems' = extractTextFromPdf(f)
       /\ toast' = "PDF loaded"
       /\ UNCHANGED << file, pdfDoc, currentPage, totalPages, scale,
                       annotations, editingMode, selectedTool, currentViewport,
                       canvas, isDrawingRef, currentAnnotationRef, exports,
                       downloads, lastNav, lastUpdate >>
       /\ Effects(TRUE, FALSE, annotationCanvas)

(***************************************************************************)
(* "New PDF" button (lines 802-814): the editor is unmounted.              *)
(***************************************************************************)
NewPdf ==
  /\ UNCHANGED serverVars
  /\ EditorShown
  /\ file' = NoDoc
  /\ pdfDoc' = NoDoc
  /\ textItems' = << >>
  /\ annotations' = << >>
  /\ canvas' = NoCanvas
  /\ renders' = [k \in 1..Len(renders) |->
                   IF renders[k].stage = "render"
                   THEN [renders[k] EXCEPT !.detached = TRUE] ELSE renders[k]]
  /\ annotationCanvas' = NoCanvas
  /\ UNCHANGED << currentPage, totalPages, scale, editingMode, selectedTool,
                  isProcessing, currentViewport, isDrawingRef,
                  currentAnnotationRef, loads, exports, toast, downloads,
                  crashed, lastNav, lastUpdate >>

(***************************************************************************)
(* Mode buttons (lines 692-724) and tool buttons (lines 726-756).  The     *)
(* annotation canvas is one element in Annotate mode and another one in    *)
(* the other modes (lines 878-895): crossing that line mounts a new one.   *)
(***************************************************************************)
RemountedAnnotationCanvas(mode) ==
  IF (mode = "annotate") # (editingMode = "annotate")
  THEN BlankAnnotationCanvas ELSE annotationCanvas

\* variant: a mode button also empties the annotation collection
setMode_Reset(mode, tool) ==
  /\ UNCHANGED serverVars
  /\ EditorShown
  /\ editingMode' = mode
  /\ selectedTool' = tool
  /\ annotations' = << >>
  /\ UNCHANGED << file, pdfDoc, currentPage, totalPages, scale, textItems,
                  isProcessing, currentViewport, canvas, isDrawingRef,
                  currentAnnotationRef, loads, exports, toast, downloads,
                  lastNav, lastUpdate >>
  /\ Effects(mode # editingMode, TRUE, RemountedAnnotationCanvas(mode))

setMode(mode, tool) ==
  /\ UNCHANGED serverVars
  /\ EditorShown
  /\ editingMode' = mode
  /\ selectedTool' = tool
  /\ UNCHANGED << file, pdfDoc, currentPage, totalPages, scale, textItems,
                  annotations, isProcessing, currentViewport, canvas,
                  isDrawingRef, currentAnnotationRef, loads, exports, toast,
                  downloads, lastNav, lastUpdate >>
  /\ Effects(mode # editingMode, FALSE, RemountedAnnotationCanvas(mode))

ViewButton == setMode("view", selectedTool)

EditTextButton == setMode("edit", "pointer")

AnnotateButton == setMode("annotate", "highlight")

Tools == {"highlight", "rectangle", "circle"}

ToolButton(tool) ==
  /\ UNCHANGED serverVars
  /\ EditorShown
  /\ editingMode = "annotate"
  /\ selectedTool' = tool
  /\ UNCHANGED << file, pdfDoc, currentPage, totalPages, scale, textItems,
                  annotations, editingMode, isProcessing, currentViewport,
                  canvas, annotationCanvas, isDrawingRef, currentAnnotationRef,
                  loads, renders, exports, toast, downloads, crashed, lastNav, lastUpdate >>

(***************************************************************************)
(* Zoom (lines 612-636).                                                   *)
(***************************************************************************)
setScale(s) ==
  /\ UNCHANGED serverVars
  /\ scale' = s
  /\ UNCHANGED << file, pdfDoc, currentPage, totalPages, textItems,
                  annotations, editingMode, selectedTool, isProcessing,
                  currentViewport, canvas, isDrawingRef, currentAnnotationRef,
                  loads, exports, toast, downloads, lastNav, lastUpdate >>
  /\ Effects(s # scale, s # scale, annotationCanvas)

ZoomInScale(prev) == Min(prev + ZoomStep, MaxScale)

ZoomOutScale(prev) == Max(prev - ZoomStep, MinScale)

\* containerWidth / (canvas.width / scale)
FitScale(container, canvasSize, sc) == (container * sc) \div canvasSize

handleZoomIn == EditorShown /\ setScale(ZoomInScale(scale))

handleZoomOut == EditorShown /\ setScale(ZoomOutScale(scale))

InWindow(s) == 0 - ScaleWindow <= s /\ s <= ScaleWindow

handleFitToWidth(clientWidth) ==
  /\ EditorShown
  /\ InWindow(FitScale(clientWidth - ContainerMargin, canvas.width, scale))
  /\ setScale(FitScale(clientWidth - ContainerMargin, canvas.width, scale))

handleFitToScreen(clientWidth, clientHeight) ==
  /\ EditorShown
  /\ InWindow(FitScale(clientWidth - ContainerMargin, canvas.width, scale))
  /\ InWindow(FitScale(clientHeight - ContainerMargin, canvas.height, scale))
  /\ setScale(Min(FitScale(clientWidth - ContainerMargin, canvas.width, scale),
                  FitScale(clientHeight - ContainerMargin, canvas.height, scale)))

(***************************************************************************)
(* Page controls: sidebar (lines 837-857), Previous / Next (961-985).      *)
(* A click on a disabled button reaches no handler.                        *)
(***************************************************************************)
setCurrentPage(n, asked) ==
  /\ UNCHANGED serverVars
  /\ currentPage' = n
  /\ lastNav' = [target |-> asked, tick |-> 1 - lastNav.tick]
  /\ UNCHANGED << file, pdfDoc, totalPages, scale, textItems, annotations,
                  editingMode, selectedTool, isProcessing, currentViewport,
                  canvas, isDrawingRef, currentAnnotationRef, loads, exports,
                  toast, downloads, lastUpdate >>
  /\ Effects(n # currentPage, n # currentPage, annotationCanvas)

SidebarPage(pageNum) ==
  /\ EditorShown
  /\ pageNum \in 1..totalPages
  /\ setCurrentPage(pageNum, pageNum)

PreviousButton ==
  /\ EditorShown
  /\ IF currentPage = 1
     THEN setCurrentPage(currentPage, currentPage - 1)
     ELSE setCurrentPage(Max(1, currentPage - 1), currentPage - 1)

\* variant: Next is neither disabled on the last page nor clamped
NextButton_Unclamped ==
  /\ EditorShown
  /\ setCurrentPage(currentPage + 1, currentPage + 1)

NextButton ==
  /\ EditorShown
  /\ IF currentPage = totalPages
     THEN setCurrentPage(currentPage, currentPage + 1)
     ELSE setCurrentPage(Min(totalPages, currentPage + 1), currentPage + 1)

(***************************************************************************)
(* Text overlay (lines 898-955): updateTextItem and the coordinate         *)
(* conversion that places the editable boxes.                              *)
(***************************************************************************)
\* variant: the box of the edited run is re-measured from the new text
updateTextItem_Remeasure(prev, id, newText) ==
  [i \in 1..Len(prev) |->
     IF prev[i].id = id
     THEN [prev[i] EXCEPT !.text = newText,
                          !.width = (Len(newText) * prev[i].fontSize * 6) \div 10]
     ELSE prev[i]]

\* variant: runs are matched by the page part of the id only
updateTextItem_PageMatch(prev, id, newText) ==
  [i \in 1..Len(prev) |->
     IF prev[i].id[1] = id[1] THEN [prev[i] EXCEPT !.text = newText]
     ELSE prev[i]]

\* prev.map((item) => (item.id === id ? { ...item, text: newText } : item))
updateTextItem(prev, id, newText) ==
  [i \in 1..Len(prev) |->
     IF prev[i].id = id THEN [prev[i] EXCEPT !.text = newText] ELSE prev[i]]

\* variant: the point value is used as a pixel value, whatever the canvas size
ToScreen_Unscaled(points, pagePoints, canvasPixels) == points * 100

\* (textItem.x / textItem.pageWidth) * canvas.width, in hundredths of a pixel
ToScreen(points, pagePoints, canvasPixels) ==
  (points * canvasPixels * 100) \div pagePoints

convertPdfToScreenCoords(textItem, cv, viewport) ==
  IF cv = NoCanvas \/ viewport = NoViewport THEN [none |-> TRUE]
  ELSE [x |-> ToScreen(textItem.x, textItem.pageWidth, cv.width),
        y |-> ToScreen(textItem.y, textItem.pageHeight, cv.height),
        width |-> Max(ToScreen(textItem.width, textItem.pageWidth, cv.width),
                      MinScreenWidth),
        height |-> Max(ToScreen(textItem.height, textItem.pageHeight, cv.height),
                       MinScreenHeight)]

\* editingMode === "edit" && pdfDoc && currentViewport
OverlayShown ==
  /\ EditorShown
  /\ editingMode = "edit"
  /\ pdfDoc # NoDoc
  /\ currentViewport # NoViewport

\* the editable boxes of the overlay: the runs of the current page
OverlayItems == getTextItemsForPage(textItems, currentPage - 1)

setTextItemsUpdate(id, newText) ==
  /\ UNCHANGED serverVars
  /\ textItems' = updateTextItem(textItems, id, newText)
  /\ lastUpdate' = [id |-> id, tick |-> 1 - lastUpdate.tick]
  /\ UNCHANGED << file, pdfDoc, currentPage, totalPages, scale, annotations,
                  editingMode, selectedTool, isProcessing, currentViewport,
                  canvas, isDrawingRef, currentAnnotationRef, loads, exports,
                  toast, downloads, lastNav >>
  /\ Effects(TRUE, FALSE, annotationCanvas)

\* onBlur of one editable box
OverlayBlur(k, newText) ==
  /\ OverlayShown
  /\ k \in 1..Len(OverlayItems)
  /\ setTextItemsUpdate(OverlayItems[k].id, newText)

\* updateTextItem called with any id
UpdateCall(id, newText) ==
  /\ ~crashed
  /\ setTextItemsUpdate(id, newText)

(***************************************************************************)
(* Pointer gestures on the annotation canvas (lines 425-466, 878-888).     *)
(* The id of an annotation (a time stamp) is not part of the model.        *)
(***************************************************************************)
AnnotationSurface == EditorShown /\ editingMode = "annotate"

handleAnnotationStart(p) ==
  /\ UNCHANGED serverVars
  /\ AnnotationSurface
  /\ selectedTool # "pointer"
  /\ isDrawingRef' = TRUE
  /\ currentAnnotationRef' =
       [type |-> IF selectedTool = "text" THEN "draw" ELSE selectedTool,
        path |-> << p >>,
        color |-> IF selectedTool = "highlight" THEN "#ffff00" ELSE "#ff0000",
        pageIndex |-> currentPage - 1]
  /\ UNCHANGED << file, pdfDoc, currentPage, totalPages, scale, textItems,
                  annotations, editingMode, selectedTool, isProcessing,
                  currentViewport, canvas, annotationCanvas, loads, renders,
                  exports, toast, downloads, crashed, lastNav, lastUpdate >>

handleAnnotationMove(p) ==
  /\ UNCHANGED serverVars
  /\ AnnotationSurface
  /\ isDrawingRef
  /\ currentAnnotationRef # NoRef
  /\ Len(currentAnnotationRef.path) < MaxPath
  /\ currentAnnotationRef' =
       [currentAnnotationRef EXCEPT !.path = Append(@, p)]
  /\ annotationCanvas' =
       renderAnnotations(annotations, currentPage - 1, canvas, annotationCanvas,
                         TRUE, currentAnnotationRef').canvas
  /\ UNCHANGED << file, pdfDoc, currentPage, totalPages, scale, textItems,
                  annotations, editingMode, selectedTool, isProcessing,
                  currentViewport, canvas, isDrawingRef, loads, renders,
                  exports, toast, downloads, crashed, lastNav, lastUpdate >>

\* variant: the collection is replaced by the new entry instead of being
\* extended by it
handleAnnotationEnd_Replace(eager) ==
  /\ UNCHANGED serverVars
  /\ AnnotationSurface
  /\ isDrawingRef' = FALSE
  /\ IF isDrawingRef /\ currentAnnotationRef # NoRef THEN
       /\ annotations' = << IF eager THEN currentAnnotationRef ELSE NullEntry >>
       /\ currentAnnotationRef' = NoRef
       /\ UNCHANGED << file, pdfDoc, currentPage, totalPages, scale, textItems,
                       editingMode, selectedTool, isProcessing, currentViewport,
                       canvas, loads, exports, toast, downloads, lastNav,
                       lastUpdate >>
       /\ Effects(FALSE, TRUE, annotationCanvas)
     ELSE
       /\ eager
       /\ UNCHANGED << file, pdfDoc, currentPage, totalPages, scale, textItems,
                       annotations, editingMode, selectedTool, isProcessing,
                       currentViewport, canvas, annotationCanvas,
                       currentAnnotationRef, loads, renders, exports, toast,
                       downloads, crashed, lastNav, lastUpdate >>

\* onMouseUp and onMouseLeave.  The updater passed to setAnnotations reads
\* currentAnnotationRef.current when React runs it: at once (eager), or
\* while rendering, after the handler has set the ref to null.
handleAnnotationEnd(eager) ==
  /\ UNCHANGED serverVars
  /\ AnnotationSurface
  /\ isDrawingRef' = FALSE
  /\ IF isDrawingRef /\ currentAnnotationRef # NoRef THEN
       /\ Len(annotations) < MaxAnnotations
       /\ annotations' = Append(annotations,
                                IF eager THEN currentAnnotationRef ELSE NullEntry)
       /\ currentAnnotationRef' = NoRef
       /\ UNCHANGED << file, pdfDoc, currentPage, totalPages, scale, textItems,
                       editingMode, selectedTool, isProcessing, currentViewport,
                       canvas, loads, exports, toast, downloads, lastNav,
                       lastUpdate >>
       /\ Effects(FALSE, TRUE, annotationCanvas)
     ELSE
       /\ eager
       /\ UNCHANGED << file, pdfDoc, currentPage, totalPages, scale, textItems,
                       annotations, editingMode, selectedTool, isProcessing,
                       currentViewport, canvas, annotationCanvas,
                       currentAnnotationRef, loads, renders, exports, toast,
                       downloads, crashed, lastNav, lastUpdate >>

(***************************************************************************)
(* renderPage (lines 251-289), in the two steps its awaits cut it into.    *)
(***************************************************************************)
\* after  await pdfDoc.getPage(pageNum): size the canvas, store the viewport,
\* start page.render.  getPage rejects for a page the document does not
\* have; a canvas that is gone makes getContext throw; page.render refuses a
\* canvas another render is still painting.  All three end in the catch.
renderPageBegin(i) ==
  /\ UNCHANGED serverVars
  /\ ~crashed
  /\ i \in 1..Len(renders)
  /\ renders[i].stage = "getPage"
  /\ LET t == renders[i]
         size == PageSize(t.doc, t.pageNum)
         busy == \E k \in 1..Len(renders) :
                   renders[k].stage = "render" /\ ~renders[k].detached
     IN IF t.pageNum \notin 1..numPages(t.doc) \/ canvas = NoCanvas
           \/ t.scale <= 0
        THEN /\ renders' = RemoveAt(renders, i)
             /\ UNCHANGED << canvas, currentViewport >>
        ELSE /\ canvas' = [width |-> (size[1] * t.scale) \div 100,
                           height |-> (size[2] * t.scale) \div 100,
                           doc |-> NoDoc, pageNum |-> 0, scale |-> 0,
                           covered |-> FALSE]
             /\ currentViewport' =
                  [doc |-> t.doc, pageNum |-> t.pageNum, scale |-> t.scale]
             /\ renders' = IF busy THEN RemoveAt(renders, i)
                           ELSE [renders EXCEPT ![i].stage = "render"]
  /\ UNCHANGED << file, pdfDoc, currentPage, totalPages, scale, textItems,
                  annotations, editingMode, selectedTool, isProcessing,
                  annotationCanvas, isDrawingRef, currentAnnotationRef, loads,
                  exports, toast, downloads, crashed, lastNav, lastUpdate >>

\* coverOriginalText (lines 222-249) as called from renderPage: whether it
\* paints its white rectangles
coverOriginalText(t, cv) ==
  /\ cv # NoCanvas
  /\ t.hasViewport
  /\ t.mode = "edit"
  /\ t.hasItems

\* after  await page.render(renderContext).promise
renderPageEnd(i, ok) ==
  /\ UNCHANGED serverVars
  /\ ~crashed
  /\ i \in 1..Len(renders)
  /\ renders[i].stage = "render"
  /\ renders' = RemoveAt(renders, i)
  /\ LET t == renders[i]
         painted == IF t.detached \/ canvas = NoCanvas THEN canvas
                    ELSE [canvas EXCEPT !.doc = t.doc, !.pageNum = t.pageNum,
                                        !.scale = t.scale]
     IN IF ok THEN
          /\ canvas' = IF coverOriginalText(t, painted)
                       THEN [painted EXCEPT !.covered = TRUE] ELSE painted
          /\ annotationCanvas' =
               renderAnnotations(t.anns, t.pageNum - 1, canvas',
                                 annotationCanvas, isDrawingRef,
                                 currentAnnotationRef).canvas
        ELSE UNCHANGED << canvas, annotationCanvas >>
  /\ UNCHANGED << file, pdfDoc, currentPage, totalPages, scale, textItems,
                  annotations, editingMode, selectedTool, isProcessing,
                  currentViewport, isDrawingRef, currentAnnotationRef, loads,
                  exports, toast, downloads, crashed, lastNav, lastUpdate >>

(***************************************************************************)
(* exportPdf (lines 468-610), in the steps its awaits cut it into.  The    *)
(* function closes over file and textItems as they are at the click.       *)
(***************************************************************************)
Whitespace == {" ", "\t", "\n"}

RECURSIVE TrimStart(_)
TrimStart(t) ==
  IF t # << >> /\ Head(t) \in Whitespace THEN TrimStart(Tail(t)) ELSE t

RECURSIVE TrimEnd(_)
TrimEnd(t) ==
  IF t # << >> /\ t[Len(t)] \in Whitespace
  THEN TrimEnd(SubSeq(t, 1, Len(t) - 1)) ELSE t

\* String.prototype.trim
Trim(t) == TrimEnd(TrimStart(t))

\* Math.min(1, Math.max(0, c / 255)), kept on the 0..255 scale
ClampColor(c) ==
  [r |-> Min(255, Max(0, c.r)), g |-> Min(255, Max(0, c.g)),
   b |-> Min(255, Max(0, c.b))]

\* page.drawRectangle of the first loop (lines 503-521)
CoverRectangle(textItem, height) ==
  [op |-> "drawRectangle", pageIndex |-> textItem.pageIndex,
   x |-> textItem.x - ExportPadding,
   y |-> (height - textItem.y - textItem.height) - ExportPadding,
   width |-> textItem.width + ExportPadding * 2,
   height |-> textItem.height + ExportPadding * 2]

\* variant: the text is drawn at the bottom of the run's box (textBottom)
\* instead of at its baseline
TextDraw_TextBottom(textItem, height, font) ==
  [op |-> "drawText", pageIndex |-> textItem.pageIndex, id |-> textItem.id,
   text |-> textItem.text, x |-> textItem.x,
   y |-> height - textItem.y - textItem.height,
   size |-> textItem.fontSize, color |-> ClampColor(textItem.color),
   font |-> font]

\* page.drawText (lines 538-548 with the embedded font, 558-564 without)
TextDraw(textItem, height, font) ==
  [op |-> "drawText", pageIndex |-> textItem.pageIndex, id |-> textItem.id,
   text |-> textItem.text, x |-> textItem.x, y |-> height - textItem.y,
   size |-> textItem.fontSize, color |-> ClampColor(textItem.color),
   font |-> font]

RECURSIVE CoverPass(_, _)
CoverPass(pageTextItems, height) ==
  IF pageTextItems = << >> THEN << >>
  ELSE << CoverRectangle(Head(pageTextItems), height) >>
       \o CoverPass(Tail(pageTextItems), height)

RECURSIVE TextPass(_, _, _, _)
\* variant: a run whose two draws both fail ends the text loop of its page
TextPass_StopAtFailure(pageTextItems, height, fontFails, bothFail) ==
  IF pageTextItems = << >> THEN << >>
  ELSE LET textItem == Head(pageTextItems)
           skipped == /\ Trim(textItem.text) # << >>
                      /\ textItem.id \in fontFails
                      /\ textItem.id \in bothFail
           drawn ==
             IF Trim(textItem.text) = << >> THEN << >>
             ELSE IF textItem.id \notin fontFails
               THEN << TextDraw(textItem, height, "Helvetica") >>
             ELSE IF textItem.id \notin bothFail
               THEN << TextDraw(textItem, height, "default") >>
             ELSE << >>
       IN IF skipped THEN << >>
          ELSE drawn \o TextPass(Tail(pageTextItems), height, fontFails,
                                  bothFail)

\* variant: the text is tested without trim(), so a whitespace-only run is
\* drawn
TextPass_NoTrim(pageTextItems, height, fontFails, bothFail) ==
  IF pageTextItems = << >> THEN << >>
  ELSE LET textItem == Head(pageTextItems)
           drawn ==
             IF textItem.text = << >> THEN << >>
             ELSE IF textItem.id \notin fontFails
               THEN << TextDraw(textItem, height, "Helvetica") >>
             ELSE IF textItem.id \notin bothFail
               THEN << TextDraw(textItem, height, "default") >>
             ELSE << >>
       IN drawn \o TextPass(Tail(pageTextItems), height, fontFails, bothFail)

\* the second loop (lines 524-573); fontFails, bothFail: the ids of the runs
\* whose drawText with the embedded font, and also without a font, throws
TextPass(pageTextItems, height, fontFails, bothFail) ==
  IF pageTextItems = << >> THEN << >>
  ELSE LET textItem == Head(pageTextItems)
           drawn ==
             IF Trim(textItem.text) = << >> THEN << >>
             ELSE IF textItem.id \notin fontFails
               THEN << TextDraw(textItem, height, "Helvetica") >>
             ELSE IF textItem.id \notin bothFail
               THEN << TextDraw(textItem, height, "default") >>
             ELSE << >>
       IN drawn \o TextPass(Tail(pageTextItems), height, fontFails, bothFail)

RECURSIVE ExportPages(_, _, _, _, _)
\* variant: on each page the texts are drawn first and the cover rectangles
\* after them
ExportPages_TextFirst(f, items, pageIndex, fontFails, bothFail) ==
  IF pageIndex >= numPages(f) THEN << >>
  ELSE LET pageTextItems ==
             SelectSeq(items, LAMBDA item: item.pageIndex = pageIndex)
           height == PageSize(f, pageIndex + 1)[2]
       IN TextPass(pageTextItems, height, fontFails, bothFail)
          \o CoverPass(pageTextItems, height)
          \o ExportPages(f, items, pageIndex + 1, fontFails, bothFail)

\* the page loop (lines 488-576), from pageIndex on
ExportPages(f, items, pageIndex, fontFails, bothFail) ==
  IF pageIndex >= numPages(f) THEN << >>
  ELSE LET pageTextItems ==
             SelectSeq(items, LAMBDA item: item.pageIndex = pageIndex)
           height == PageSize(f, pageIndex + 1)[2]
       IN CoverPass(pageTextItems, height)
          \o TextPass(pageTextItems, height, fontFails, bothFail)
          \o ExportPages(f, items, pageIndex + 1, fontFails, bothFail)

\* the runs for which both console.warn calls are reached (lines 550 and
\* 565-570): drawText threw with the embedded font and again without
ExportWarned(f, items, fontFails, bothFail) ==
  { items[k].id : k \in { j \in 1..Len(items) :
                            /\ items[j].pageIndex < numPages(f)
                            /\ Trim(items[j].text) # << >>
                            /\ items[j].id \in fontFails
                            /\ items[j].id \in bothFail } }

\* click on "Export PDF" (disabled while isProcessing), up to the first await
exportPdf ==
  /\ UNCHANGED serverVars
  /\ EditorShown
  /\ ~isProcessing
  /\ IF file = NoDoc \/ pdfDoc = NoDoc THEN
       /\ toast' = "No PDF loaded"
       /\ UNCHANGED << isProcessing, exports >>
     ELSE
       /\ Len(exports) < MaxExports
       /\ Len(downloads) + Len(exports) < MaxDownloads
       /\ isProcessing' = TRUE
       /\ exports' = Append(exports, [file |-> file, items |-> textItems,
                                      stage |-> "loading", ops |-> << >>,
                                      retried |-> {}, warned |-> {}])
       /\ UNCHANGED toast
  /\ UNCHANGED << file, pdfDoc, currentPage, totalPages, scale, textItems,
                  annotations, editingMode, selectedTool, currentViewport,
                  canvas, annotationCanvas, isDrawingRef, currentAnnotationRef,
                  loads, renders, downloads, crashed, lastNav, lastUpdate >>

\* variant: the committed annotations are written into the export after the
\* runs
exportPdfLoaded_Annotated(i, ok, fontFails, bothFail) ==
  /\ UNCHANGED serverVars
  /\ ~crashed
  /\ i \in 1..Len(exports)
  /\ exports[i].stage = "loading"
  /\ IF ok THEN
       /\ exports' = [exports EXCEPT
                        ![i].stage = "saving",
                        ![i].ops = ExportPages(exports[i].file, exports[i].items,
                                               0, fontFails, bothFail)
                                   \o [k \in 1..Len(annotations) |->
                                        [op |-> "drawAnnotation",
                                         pageIndex |-> annotations[k].pageIndex]],
                        ![i].retried = ExportWarned(exports[i].file,
                                                    exports[i].items,
                                                    fontFails, fontFails),
                        ![i].warned = ExportWarned(exports[i].file,
                                                   exports[i].items,
                                                   fontFails, bothFail)]
       /\ UNCHANGED << isProcessing, toast >>
     ELSE
       /\ fontFails = {} /\ bothFail = {}
       /\ exports' = RemoveAt(exports, i)
       /\ toast' = "Failed to export PDF"
       /\ isProcessing' = FALSE
  /\ UNCHANGED << file, pdfDoc, currentPage, totalPages, scale, textItems,
                  annotations, editingMode, selectedTool, currentViewport,
                  canvas, annotationCanvas, isDrawingRef, currentAnnotationRef,
                  loads, renders, downloads, crashed, lastNav, lastUpdate >>

\* after  await PDFDocument.load(arrayBuffer): the page loop, or the catch
exportPdfLoaded(i, ok, fontFails, bothFail) ==
  /\ UNCHANGED serverVars
  /\ ~crashed
  /\ i \in 1..Len(exports)
  /\ exports[i].stage = "loading"
  /\ IF ok THEN
       /\ exports' = [exports EXCEPT
                        ![i].stage = "saving",
                        ![i].ops = ExportPages(exports[i].file, exports[i].items,
                                               0, fontFails, bothFail),
                        ![i].retried = ExportWarned(exports[i].file,
                                                    exports[i].items,
                                                    fontFails, fontFails),
                        ![i].warned = ExportWarned(exports[i].file,
                                                   exports[i].items,
                                                   fontFails, bothFail)]
       /\ UNCHANGED << isProcessing, toast >>
     ELSE
       /\ fontFails = {} /\ bothFail = {}
       /\ exports' = RemoveAt(exports, i)
       /\ toast' = "Failed to export PDF"
       /\ isProcessing' = FALSE
  /\ UNCHANGED << file, pdfDoc, currentPage, totalPages, scale, textItems,
                  annotations, editingMode, selectedTool, currentViewport,
                  canvas, annotationCanvas, isDrawingRef, currentAnnotationRef,
                  loads, renders, downloads, crashed, lastNav, lastUpdate >>

\* the file handed to the user: the bytes saved (ops) under the name of the
\* original file; with it, as history, the runs the export closed over and
\* the runs for which "Error drawing text" (retried) and "Fallback text
\* drawing also failed" (warned) were logged
Download(t) ==
  [file |-> t.file, ops |-> t.ops, items |-> t.items,
   retried |-> t.retried, warned |-> t.warned]

\* variant: the download is handed over before the outcome of save is looked at
exportPdfSaved_Always(i, ok) ==
  /\ UNCHANGED serverVars
  /\ ~crashed
  /\ i \in 1..Len(exports)
  /\ exports[i].stage = "saving"
  /\ exports' = RemoveAt(exports, i)
  /\ isProcessing' = FALSE
  /\ downloads' = Append(downloads, Download(exports[i]))
  /\ toast' = IF ok THEN "Success!" ELSE "Failed to export PDF"
  /\ UNCHANGED << file, pdfDoc, currentPage, totalPages, scale, textItems,
                  annotations, editingMode, selectedTool, currentViewport,
                  canvas, annotationCanvas, isDrawingRef, currentAnnotationRef,
                  loads, renders, crashed, lastNav, lastUpdate >>

\* after  await pdfDocLib.save(): the download, or the catch
exportPdfSaved(i, ok) ==
  /\ UNCHANGED serverVars
  /\ ~crashed
  /\ i \in 1..Len(exports)
  /\ exports[i].stage = "saving"
  /\ exports' = RemoveAt(exports, i)
  /\ isProcessing' = FALSE
  /\ IF ok THEN
       /\ downloads' = Append(downloads, Download(exports[i]))
       /\ toast' = "Success!"
     ELSE
       /\ toast' = "Failed to export PDF"
       /\ UNCHANGED downloads
  /\ UNCHANGED << file, pdfDoc, currentPage, totalPages, scale, textItems,
                  annotations, editingMode, selectedTool, currentViewport,
                  canvas, annotationCanvas, isDrawingRef, currentAnnotationRef,
                  loads, renders, crashed, lastNav, lastUpdate >>

(***************************************************************************)
(* The edge function, one action per stretch between two awaits.  Every    *)
(* invocation runs against the same table and bucket; time passes between  *)
(* the steps.                                                              *)
(***************************************************************************)
Range(seq) == { seq[k] : k \in 1..Len(seq) }

RECURSIVE TotalSizeMB(_)
\* files.reduce((sum, file) => sum + file.size, 0)
TotalSizeMB(files) ==
  IF files = << >> THEN 0
  ELSE UploadSizeMB(Head(files)) + TotalSizeMB(Tail(files))

\* the row a successful insert creates: last_accessed and created_at
\* DEFAULT now()
NewClip(type, content, uploadedFiles) ==
  [type |-> type, content |-> content, file_path |-> uploadedFiles,
   last_accessed |-> clock, created_at |-> clock]

\* time passes
Tick(d) ==
  /\ clock + d <= MaxClock
  /\ clock' = clock + d
  /\ UNCHANGED << clips, storage, requests, response >>
  /\ UNCHANGED editorVars

\* POST upload with a JSON body (lines 115-150)
uploadText(text, accessCode, insertOk) ==
  /\ IF text = "" THEN
       /\ response' = [op |-> "upload", status |-> 400,
                       error |-> "No text provided"]
       /\ UNCHANGED clips
     ELSE IF insertOk /\ clips[accessCode] = NoClip THEN
       /\ clips' = [clips EXCEPT ![accessCode] = NewClip("text", text, << >>)]
       /\ response' = [op |-> "upload", status |-> 200,
                       accessCode |-> accessCode]
     ELSE
       /\ response' = [op |-> "upload", status |-> 500,
                       error |-> "Failed to create clip"]
       /\ UNCHANGED clips
  /\ UNCHANGED << storage, clock, requests >>
  /\ UNCHANGED editorVars

\* POST upload with multipart/form-data, up to the first storage upload
\* (lines 38-62)
uploadFiles(files, accessCode) ==
  /\ IF files = << >> THEN
       /\ response' = [op |-> "upload", status |-> 400,
                       error |-> "No files provided"]
       /\ UNCHANGED requests
     ELSE IF TotalSizeMB(files) > MaxTotalMB THEN
       /\ response' = [op |-> "upload", status |-> 400,
                       error |-> "Total file size exceeds 10MB limit"]
       /\ UNCHANGED requests
     ELSE
       /\ Len(requests) < MaxRequests
       /\ requests' = Append(requests,
                             [op |-> "upload", stage |-> "upload",
                              accessCode |-> accessCode, files |-> files,
                              uploadedFiles |-> << >>,
                              error |-> "none"])
       /\ UNCHANGED response
  /\ UNCHANGED << clips, storage, clock >>
  /\ UNCHANGED editorVars

\* after  await storage.upload(filePath, file, {upsert: false})  of the next
\* file (lines 65-88)
uploadStored(i, uploadOk) ==
  /\ i \in 1..Len(requests)
  /\ requests[i].op = "upload"
  /\ requests[i].stage = "upload"
  /\ LET r == requests[i]
         name == r.files[Len(r.uploadedFiles) + 1]
         filePath == FilePath(r.accessCode, name)
     IN IF uploadOk /\ filePath \notin storage THEN
          /\ storage' = storage \cup {filePath}
          /\ requests' =
               [requests EXCEPT
                  ![i].uploadedFiles = Append(r.uploadedFiles, filePath),
                  ![i].stage = IF Len(r.uploadedFiles) + 1 = Len(r.files)
                               THEN "insert" ELSE "upload"]
          /\ UNCHANGED response
        ELSE IF r.uploadedFiles # << >> THEN
          /\ requests' = [requests EXCEPT
                            ![i].stage = "rollback",
                            ![i].error = "Failed to upload files"]
          /\ UNCHANGED << storage, response >>
        ELSE
          /\ requests' = RemoveAt(requests, i)
          /\ response' = [op |-> "upload", status |-> 500,
                          error |-> "Failed to upload files"]
          /\ UNCHANGED storage
  /\ UNCHANGED << clips, clock >>
  /\ UNCHANGED editorVars

\* after  await from('clips').insert(...)  (lines 90-114)
uploadInserted(i, insertOk) ==
  /\ i \in 1..Len(requests)
  /\ requests[i].op = "upload"
  /\ requests[i].stage = "insert"
  /\ LET r == requests[i]
     IN IF insertOk /\ clips[r.accessCode] = NoClip THEN
          /\ clips' = [clips EXCEPT
                         ![r.accessCode] = NewClip("file", "", r.uploadedFiles)]
          /\ requests' = RemoveAt(requests, i)
          /\ response' = [op |-> "upload", status |-> 200,
                          accessCode |-> r.accessCode]
        ELSE
          /\ requests' = [requests EXCEPT
                            ![i].stage = "rollback",
                            ![i].error = "Failed to create clip"]
          /\ UNCHANGED << clips, response >>
  /\ UNCHANGED << storage, clock >>
  /\ UNCHANGED editorVars

\* variant: the clean-up removes everything stored under the access code
uploadRolledBack_ByCode(i) ==
  /\ i \in 1..Len(requests)
  /\ requests[i].op = "upload"
  /\ requests[i].stage = "rollback"
  /\ storage' = { path \in storage : path[1] # requests[i].accessCode }
  /\ requests' = RemoveAt(requests, i)
  /\ response' = [op |-> "upload", status |-> 500,
                  error |-> requests[i].error]
  /\ UNCHANGED << clips, clock >>
  /\ UNCHANGED editorVars

\* after  await storage.remove(uploadedFiles.map(f => f.path))  of the
\* clean-up after a failure (lines 78-84 and 104-108)
uploadRolledBack(i) ==
  /\ i \in 1..Len(requests)
  /\ requests[i].op = "upload"
  /\ requests[i].stage = "rollback"
  /\ storage' = storage \ Range(requests[i].uploadedFiles)
  /\ requests' = RemoveAt(requests, i)
  /\ response' = [op |-> "upload", status |-> 500,
                  error |-> requests[i].error]
  /\ UNCHANGED << clips, clock >>
  /\ UNCHANGED editorVars

\* GET access/:code, after the select (lines 154-169)
accessSelected(code) ==
  /\ IF clips[code] = NoClip THEN
       /\ response' = [op |-> "access", status |-> 404, code |-> code,
                       error |-> "Clip not found or expired"]
       /\ UNCHANGED requests
     ELSE
       /\ Len(requests) < MaxRequests
       /\ requests' = Append(requests,
                             [op |-> "access", code |-> code,
                              clip |-> clips[code], selectedAt |-> clock])
       /\ UNCHANGED response
  /\ UNCHANGED << clips, storage, clock >>
  /\ UNCHANGED editorVars

\* GET access/:code, after  await update({last_accessed: new Date()})  up
\* to the Response (lines 171-220); the Response carries the row as it was
\* selected.  As history it also carries the times of the select and of
\* the update.
accessUpdated(i) ==
  /\ i \in 1..Len(requests)
  /\ requests[i].op = "access"
  /\ LET r == requests[i]
     IN /\ clips' = IF clips[r.code] = NoClip THEN clips
                    ELSE [clips EXCEPT ![r.code].last_accessed = clock]
        /\ response' = [op |-> "access", status |-> 200, code |-> r.code,
                        type |-> r.clip.type, content |-> r.clip.content,
                        files |-> r.clip.file_path,
                        createdAt |-> r.clip.created_at,
                        lastAccessed |-> r.clip.last_accessed,
                        selectedAt |-> r.selectedAt, updatedAt |-> clock]
        /\ requests' = RemoveAt(requests, i)
  /\ UNCHANGED << storage, clock >>
  /\ UNCHANGED editorVars

\* DELETE delete/:code, after the select (lines 224-242); a code without a
\* row goes on to the delete of the row all the same
deleteSelected(code) ==
  /\ Len(requests) < MaxRequests
  /\ requests' = Append(requests,
                        [op |-> "delete", code |-> code,
                         stage |-> IF clips[code] # NoClip
                                      /\ clips[code].type = "file"
                                   THEN "remove" ELSE "delete",
                         filePaths |-> IF clips[code] # NoClip
                                       THEN Range(clips[code].file_path)
                                       ELSE {}])
  /\ UNCHANGED << clips, storage, clock, response >>
  /\ UNCHANGED editorVars

\* DELETE, after  await storage.remove(filePaths)  (line 243)
deleteRemoved(i) ==
  /\ i \in 1..Len(requests)
  /\ requests[i].op = "delete"
  /\ requests[i].stage = "remove"
  /\ storage' = storage \ requests[i].filePaths
  /\ requests' = [requests EXCEPT ![i].stage = "delete"]
  /\ UNCHANGED << clips, clock, response >>
  /\ UNCHANGED editorVars

\* DELETE, after  await delete().eq('access_code', code)  up to the Response
\* (lines 246-262)
deleteDeleted(i, deleteOk) ==
  /\ i \in 1..Len(requests)
  /\ requests[i].op = "delete"
  /\ requests[i].stage = "delete"
  /\ IF deleteOk THEN
       /\ clips' = [clips EXCEPT ![requests[i].code] = NoClip]
       /\ response' = [op |-> "delete", status |-> 200, code |-> requests[i].code]
     ELSE
       /\ response' = [op |-> "delete", status |-> 500,
                       error |-> "Failed to delete clip"]
       /\ UNCHANGED clips
  /\ requests' = RemoveAt(requests, i)
  /\ UNCHANGED << storage, clock >>
  /\ UNCHANGED editorVars

\* last_accessed < oneHourAgo
Expired(clip, oneHourAgo) ==
  clip # NoClip /\ clip.last_accessed < oneHourAgo

\* POST cleanup, after the select of the expired clips (lines 266-293)
cleanupSelected ==
  /\ LET oneHourAgo == clock - OneHour
         expiredClips == { code \in Codes : Expired(clips[code], oneHourAgo) }
         allFilePaths ==
           UNION { Range(clips[code].file_path) :
                     code \in { c \in expiredClips : clips[c].type = "file" } }
     IN IF expiredClips = {} THEN
          /\ response' = [op |-> "cleanup", status |-> 200, deleted |-> 0]
          /\ UNCHANGED requests
        ELSE
          /\ Len(requests) < MaxRequests
          /\ requests' = Append(requests,
                                [op |-> "cleanup",
                                 stage |-> IF allFilePaths = {} THEN "delete"
                                           ELSE "remove",
                                 oneHourAgo |-> oneHourAgo,
                                 expiredClips |-> expiredClips,
                                 allFilePaths |-> allFilePaths])
          /\ UNCHANGED response
  /\ UNCHANGED << clips, storage, clock >>
  /\ UNCHANGED editorVars

\* POST cleanup, after  await storage.remove(allFilePaths)  (lines 290-292)
cleanupRemoved(i) ==
  /\ i \in 1..Len(requests)
  /\ requests[i].op = "cleanup"
  /\ requests[i].stage = "remove"
  /\ storage' = storage \ requests[i].allFilePaths
  /\ requests' = [requests EXCEPT ![i].stage = "delete"]
  /\ UNCHANGED << clips, clock, response >>
  /\ UNCHANGED editorVars

\* POST cleanup, after  await delete().lt('last_accessed', oneHourAgo)  up
\* to the Response (lines 294-307)
cleanupDeleted(i) ==
  /\ i \in 1..Len(requests)
  /\ requests[i].op = "cleanup"
  /\ requests[i].stage = "delete"
  /\ clips' = [code \in Codes |->
                IF Expired(clips[code], requests[i].oneHourAgo) THEN NoClip
                ELSE clips[code]]
  /\ requests' = RemoveAt(requests, i)
  /\ response' = [op |-> "cleanup", status |-> 200,
                  deleted |-> Cardinality(requests[i].expiredClips)]
  /\ UNCHANGED << storage, clock >>
  /\ UNCHANGED editorVars

(***************************************************************************)
(* Inputs of the environment.                                              *)
(***************************************************************************)
\* the minutes that pass between two steps
Elapses == {30, 31}

\* the bodies of text uploads
ClipTexts == {"", "hello"}

\* the file lists of multipart uploads
ClipUploads == { << >>, <<"f.txt">>, <<"f.txt", "g.png">>, <<"huge.bin">> }

\* pointer positions on the annotation canvas, in pixels
Pointers == { <<100, 100>>, <<150, 150>> }

\* texts typed into an editable box
Texts == { << >>, <<" ">>, <<"O", "k">> }

\* clientWidth / clientHeight of the scroll container
ContainerWidths == {50, 300, 900}
ContainerHeights == {700}

\* ids handed to updateTextItem
Ids == { <<1, 0>>, <<1, 1>>, <<2, 0>>, <<1, 7>> }

\* the runs whose drawText throws: << with the embedded font, also without >>
DrawFailures ==
  { << {}, {} >>, << {<<1, 0>>}, {} >>, << {<<1, 0>>, <<2, 0>>}, {<<1, 0>>} >> }

RenderStep ==
  \/ \E i \in 1..MaxRenders : renderPageBegin(i)
  \/ \E i \in 1..MaxRenders, ok \in BOOLEAN : renderPageEnd(i, ok)

LoadStep ==
  \/ \E i \in 1..MaxLoads : loadPdfParsed(i)
  \/ \E i \in 1..MaxLoads : loadPdfExtracted(i)

(***************************************************************************)
(* The whole page.                                                         *)
(***************************************************************************)
Next ==
  \/ \E f \in Files : onDrop(f)
  \/ LoadStep
  \/ NewPdf
  \/ ViewButton
  \/ EditTextButton
  \/ AnnotateButton
  \/ \E tool \in Tools : ToolButton(tool)
  \/ handleZoomIn
  \/ handleZoomOut
  \/ \E w \in ContainerWidths : handleFitToWidth(w)
  \/ \E w \in ContainerWidths, h \in ContainerHeights : handleFitToScreen(w, h)
  \/ \E n \in 1..2 : SidebarPage(n)
  \/ PreviousButton
  \/ NextButton
  \/ \E k \in 1..2, t \in Texts : OverlayBlur(k, t)
  \/ \E p \in Pointers : handleAnnotationStart(p)
  \/ \E p \in Pointers : handleAnnotationMove(p)
  \/ \E eager \in BOOLEAN : handleAnnotationEnd(eager)
  \/ RenderStep
  \/ exportPdf
  \/ \E i \in 1..MaxExports, ok \in BOOLEAN, fails \in DrawFailures :
       exportPdfLoaded(i, ok, fails[1], fails[2])
  \/ \E i \in 1..MaxExports, ok \in BOOLEAN : exportPdfSaved(i, ok)
  \/ \E id \in Ids, t \in Texts : UpdateCall(id, t)

Spec == Init /\ [][Next]_vars

(***************************************************************************)
(* Parts of the page, each with the handlers one group of properties is    *)
(* about; every part keeps the load and the render tasks.                  *)
(***************************************************************************)
\* the clipboard service
NextClips ==
  \/ \E d \in Elapses : Tick(d)
  \/ \E text \in ClipTexts, code \in Codes, ok \in BOOLEAN :
       uploadText(text, code, ok)
  \/ \E files \in ClipUploads, code \in Codes : uploadFiles(files, code)
  \/ \E i \in 1..MaxRequests, ok \in BOOLEAN : uploadStored(i, ok)
  \/ \E i \in 1..MaxRequests, ok \in BOOLEAN : uploadInserted(i, ok)
  \/ \E i \in 1..MaxRequests : uploadRolledBack(i)
  \/ \E code \in Codes : accessSelected(code)
  \/ \E i \in 1..MaxRequests : accessUpdated(i)
  \/ \E code \in Codes : deleteSelected(code)
  \/ \E i \in 1..MaxRequests : deleteRemoved(i)
  \/ \E i \in 1..MaxRequests, ok \in BOOLEAN : deleteDeleted(i, ok)
  \/ cleanupSelected
  \/ \E i \in 1..MaxRequests : cleanupRemoved(i)
  \/ \E i \in 1..MaxRequests : cleanupDeleted(i)

SpecClips == Init /\ [][NextClips]_vars

\* file uploads alone: two requests at a time, two access codes, file lists
\* that share names in either order
UploadLists ==
  { << >>, <<"f.txt">>, <<"g.png">>, <<"f.txt", "g.png">>,
    <<"g.png", "f.txt">>, <<"huge.bin">> }

NextUpload ==
  \/ \E files \in UploadLists, code \in Codes : uploadFiles(files, code)
  \/ \E i \in 1..MaxRequests, ok \in BOOLEAN : uploadStored(i, ok)
  \/ \E i \in 1..MaxRequests, ok \in BOOLEAN : uploadInserted(i, ok)
  \/ \E i \in 1..MaxRequests : uploadRolledBack(i)

SpecUpload == Init /\ [][NextUpload]_vars

\* file clips under upload, access, delete and cleanup, with a database and
\* a storage that do not fail
NextFiles ==
  \/ \E d \in {31} : Tick(d)
  \/ \E files \in {<<"f.txt">>}, code \in Codes : uploadFiles(files, code)
  \/ \E i \in 1..MaxRequests, ok \in {TRUE} : uploadStored(i, ok)
  \/ \E i \in 1..MaxRequests, ok \in {TRUE} : uploadInserted(i, ok)
  \/ \E i \in 1..MaxRequests : uploadRolledBack(i)
  \/ \E code \in Codes : accessSelected(code)
  \/ \E i \in 1..MaxRequests : accessUpdated(i)
  \/ \E code \in Codes : deleteSelected(code)
  \/ \E i \in 1..MaxRequests : deleteRemoved(i)
  \/ \E i \in 1..MaxRequests, ok \in {TRUE} : deleteDeleted(i, ok)
  \/ cleanupSelected
  \/ \E i \in 1..MaxRequests : cleanupRemoved(i)
  \/ \E i \in 1..MaxRequests : cleanupDeleted(i)

SpecFiles == Init /\ [][NextFiles]_vars

\* expiry: text clips, accesses, cleanup runs and the clock
NextExpiry ==
  \/ \E d \in Elapses : Tick(d)
  \/ \E text \in {"hello"}, code \in Codes, ok \in {TRUE} :
       uploadText(text, code, ok)
  \/ \E code \in Codes : accessSelected(code)
  \/ \E i \in 1..MaxRequests : accessUpdated(i)
  \/ cleanupSelected
  \/ \E i \in 1..MaxRequests : cleanupDeleted(i)

SpecExpiry == Init /\ [][NextExpiry]_vars

\* in the parts of the editor below a handler that starts a render runs
\* when no render is in flight: the user waits for the page
OneAtATime == Len(renders') <= MaxRenders - 1

\* loading, "New PDF" and page navigation
NextSession ==
  \/ \E f \in Files : onDrop(f) /\ OneAtATime
  \/ LoadStep /\ OneAtATime
  \/ NewPdf /\ OneAtATime
  \/ \E n \in 1..2 : SidebarPage(n) /\ OneAtATime
  \/ PreviousButton /\ OneAtATime
  \/ NextButton /\ OneAtATime
  \/ RenderStep /\ OneAtATime
  \/ exportPdf /\ OneAtATime

SpecSession == Init /\ [][NextSession]_vars

\* the text model
NextText ==
  \/ \E f \in {"a.pdf"} : onDrop(f) /\ OneAtATime
  \/ LoadStep /\ OneAtATime
  \/ EditTextButton /\ OneAtATime
  \/ ViewButton /\ OneAtATime
  \/ \E n \in 1..2 : SidebarPage(n) /\ OneAtATime
  \/ \E k \in 1..2, t \in Texts : OverlayBlur(k, t) /\ OneAtATime
  \/ \E id \in Ids, t \in Texts : UpdateCall(id, t) /\ OneAtATime
  \/ RenderStep /\ OneAtATime

SpecText == Init /\ [][NextText]_vars

\* the mode and tool buttons over a document with text edits and annotations
NextModes ==
  \/ \E f \in {"a.pdf"} : onDrop(f) /\ OneAtATime
  \/ LoadStep /\ OneAtATime
  \/ ViewButton /\ OneAtATime
  \/ EditTextButton /\ OneAtATime
  \/ AnnotateButton /\ OneAtATime
  \/ \E tool \in Tools : ToolButton(tool) /\ OneAtATime
  \/ \E k \in 1..2, t \in {<<"O", "k">>} : OverlayBlur(k, t) /\ OneAtATime
  \/ \E p \in {<<100, 100>>} : handleAnnotationStart(p) /\ OneAtATime
  \/ \E p \in {<<150, 150>>} : handleAnnotationMove(p) /\ OneAtATime
  \/ \E eager \in BOOLEAN : handleAnnotationEnd(eager) /\ OneAtATime
  \/ RenderStep /\ OneAtATime

SpecModes == Init /\ [][NextModes]_vars

\* zoom and the coordinate conversion; the fit buttons are used on a page
\* that has been rendered at the current scale
PageSettled ==
  /\ renders = << >>
  /\ canvas # NoCanvas
  /\ canvas.doc = pdfDoc
  /\ canvas.pageNum = currentPage
  /\ canvas.scale = scale

NextView ==
  \/ \E f \in {"a.pdf"} : onDrop(f) /\ OneAtATime
  \/ LoadStep /\ OneAtATime
  \/ EditTextButton /\ OneAtATime
  \/ handleZoomIn /\ OneAtATime
  \/ handleZoomOut /\ OneAtATime
  \/ \E w \in ContainerWidths : PageSettled /\ handleFitToWidth(w) /\ OneAtATime
  \/ \E w \in ContainerWidths, h \in ContainerHeights :
       PageSettled /\ handleFitToScreen(w, h) /\ OneAtATime
  \/ \E n \in 1..2 : SidebarPage(n) /\ OneAtATime
  \/ RenderStep /\ OneAtATime

SpecView == Init /\ [][NextView]_vars

\* annotations, with the highlight and the rectangle tool and gestures that
\* start at (100, 100)
NextAnnotate ==
  \/ \E f \in {"a.pdf"} : onDrop(f) /\ OneAtATime
  \/ LoadStep /\ OneAtATime
  \/ ViewButton /\ OneAtATime
  \/ AnnotateButton /\ OneAtATime
  \/ \E tool \in {"rectangle"} : ToolButton(tool) /\ OneAtATime
  \/ \E p \in {<<100, 100>>} : handleAnnotationStart(p) /\ OneAtATime
  \/ \E p \in Pointers : handleAnnotationMove(p) /\ OneAtATime
  \/ \E eager \in BOOLEAN : handleAnnotationEnd(eager) /\ OneAtATime
  \/ handleZoomIn /\ OneAtATime
  \/ \E n \in 1..2 : SidebarPage(n) /\ OneAtATime
  \/ RenderStep /\ OneAtATime

SpecAnnotate == Init /\ [][NextAnnotate]_vars

\* gestures on the page in the three modes, on any page of the document
NextGestures ==
  \/ \E f \in {"a.pdf"} : onDrop(f) /\ OneAtATime
  \/ LoadStep /\ OneAtATime
  \/ ViewButton /\ OneAtATime
  \/ EditTextButton /\ OneAtATime
  \/ AnnotateButton /\ OneAtATime
  \/ \E n \in 1..2 : SidebarPage(n) /\ OneAtATime
  \/ \E k \in 1..1, t \in {<<"O", "k">>} : OverlayBlur(k, t) /\ OneAtATime
  \/ \E p \in {<<100, 100>>} : handleAnnotationStart(p) /\ OneAtATime
  \/ \E p \in {<<150, 150>>} : handleAnnotationMove(p) /\ OneAtATime
  \/ \E eager \in BOOLEAN : handleAnnotationEnd(eager) /\ OneAtATime
  \/ RenderStep /\ OneAtATime

SpecGestures == Init /\ [][NextGestures]_vars

\* renders that overlap: page changes and zoom while a render is in flight
NextRace ==
  \/ \E f \in {"a.pdf"} : onDrop(f)
  \/ LoadStep
  \/ handleZoomIn
  \/ \E n \in 1..2 : SidebarPage(n)
  \/ \E i \in 1..MaxRenders : renderPageBegin(i)
  \/ \E i \in 1..MaxRenders, ok \in {TRUE} : renderPageEnd(i, ok)

SpecRace == Init /\ [][NextRace]_vars

\* export
NextExport ==
  \/ \E f \in {"a.pdf", "b.pdf"} : onDrop(f) /\ OneAtATime
  \/ LoadStep /\ OneAtATime
  \/ NewPdf /\ OneAtATime
  \/ EditTextButton /\ OneAtATime
  \/ \E k \in 1..2, t \in {<<"O", "k">>} : OverlayBlur(k, t) /\ OneAtATime
  \/ RenderStep /\ OneAtATime
  \/ (downloads = << >> /\ exportPdf) /\ OneAtATime
  \/ \E i \in 1..MaxExports, ok \in BOOLEAN, fails \in DrawFailures :
       exportPdfLoaded(i, ok, fails[1], fails[2]) /\ OneAtATime
  \/ \E i \in 1..MaxExports, ok \in BOOLEAN : exportPdfSaved(i, ok) /\ OneAtATime

SpecExport == Init /\ [][NextExport]_vars

\* two exports of one document, with page changes, zoom, mode changes and an
\* annotation between and before them
NextExportView ==
  \/ \E f \in {"a.pdf"} : onDrop(f) /\ OneAtATime
  \/ LoadStep /\ OneAtATime
  \/ AnnotateButton /\ OneAtATime
  \/ \E p \in {<<100, 100>>} : handleAnnotationStart(p) /\ OneAtATime
  \/ \E p \in {<<150, 150>>} : handleAnnotationMove(p) /\ OneAtATime
  \/ \E eager \in BOOLEAN : handleAnnotationEnd(eager) /\ OneAtATime
  \/ handleZoomIn /\ OneAtATime
  \/ \E n \in {2} : SidebarPage(n) /\ OneAtATime
  \/ RenderStep /\ OneAtATime
  \/ exportPdf /\ OneAtATime
  \/ \E i \in 1..MaxExports, ok \in BOOLEAN, fails \in DrawFailures :
       exportPdfLoaded(i, ok, fails[1], fails[2]) /\ OneAtATime
  \/ \E i \in 1..MaxExports, ok \in BOOLEAN : exportPdfSaved(i, ok) /\ OneAtATime

SpecExportView == Init /\ [][NextExportView]_vars

(***************************************************************************)
(* Properties of the text model.                                           *)
(***************************************************************************)
UpdateStep == lastUpdate' # lastUpdate

KnownId(id) == \E i \in 1..Len(textItems) : textItems[i].id = id

\* C2: every updateTextItem(id, newText) call changes nothing but the text
\* field of the runs that carry that id: the number and order of the runs,
\* and x, y, width, height, fontSize, fontName, color, rotation, pageIndex,
\* pageWidth and pageHeight of every run, are the same before and after,
\* and a run with another id is unchanged altogether.
C2_UpdateChangesOnlyText ==
  [][UpdateStep =>
       /\ Len(textItems') = Len(textItems)
       /\ \A i \in 1..Len(textItems) :
            /\ [textItems'[i] EXCEPT !.text = textItems[i].text] = textItems[i]
            /\ textItems[i].id # lastUpdate'.id => textItems'[i] = textItems[i]]_vars

\* an update has replaced the text of one run of a loaded document while
\* another run still carries its extracted text
C2_Witness ==
  /\ lastUpdate.id = <<1, 0>>
  /\ Len(textItems) = 3
  /\ textItems[1].text = <<"O", "k">>
  /\ textItems[3].text = <<"A">>

\* C6 as claimed, for a loaded document: an updateTextItem call whose id
\* matches no run reports a NotFound error and leaves every run unchanged.
C6_UnknownIdReportsNotFound ==
  [][(UpdateStep /\ textItems # << >> /\ ~KnownId(lastUpdate'.id)) =>
       (toast' = "NotFound" /\ textItems' = textItems)]_vars

\* C6 as amended: an updateTextItem call whose id matches no run is a silent
\* no-op: every run is unchanged and nothing is reported to the user.
C6_UnknownIdIsSilentNoOp ==
  [][(UpdateStep /\ ~KnownId(lastUpdate'.id)) =>
       (textItems' = textItems /\ toast' = toast)]_vars

\* updateTextItem was called with an id no run of the loaded document has
C6_Witness ==
  /\ lastUpdate.id = <<1, 7>>
  /\ textItems # << >>
  /\ ~KnownId(<<1, 7>>)

(***************************************************************************)
(* Properties of page navigation and of loading.                           *)
(***************************************************************************)
\* a click on a page control that asks for a page the loaded document does
\* not have
OutOfRangeClick ==
  /\ lastNav' # lastNav
  /\ pdfDoc # NoDoc
  /\ lastNav'.target \notin 1..totalPages

\* C3 as claimed: a request for a page outside the range of the loaded
\* document is answered with an OutOfRange error and leaves the current page
\* unchanged.
C3_OutOfRangeIsReported ==
  [][OutOfRangeClick => (toast' = "OutOfRange" /\ currentPage' = currentPage)]_vars

\* C3 as amended: a request for a page outside the range of the loaded
\* document reaches no handler: no error is reported and the current page and
\* the rest of the session state are unchanged.
C3_OutOfRangeIsIgnored ==
  [][OutOfRangeClick =>
       UNCHANGED << file, pdfDoc, currentPage, totalPages, scale, textItems,
                    annotations, editingMode, selectedTool, isProcessing,
                    currentViewport, canvas, annotationCanvas, isDrawingRef,
                    currentAnnotationRef, loads, renders, exports, toast,
                    downloads, crashed, lastUpdate >>]_vars

\* Next was clicked on the last page of the two-page document
C3_Witness ==
  /\ pdfDoc = "a.pdf"
  /\ totalPages = 2
  /\ currentPage = 2
  /\ lastNav.target = 3

\* the step in which loadPdf catches the rejection of getDocument
RejectStep ==
  \E i \in 1..Len(loads) :
    /\ loads[i].stage = "parsing"
    /\ ~Parses(loads[i].file)
    /\ loads' = RemoveAt(loads, i)

\* C8: when the parser rejects the dropped bytes the failure is reported and
\* no session exists afterwards: no file, no document handle, no text runs,
\* no annotations, and the editor with its editing, navigation and export
\* controls is not shown.
C8_RejectedLoadLeavesNoSession ==
  [][RejectStep =>
       /\ toast' = "Failed to load PDF"
       /\ file' = NoDoc
       /\ pdfDoc' = NoDoc
       /\ textItems' = << >>
       /\ annotations' = << >>
       /\ ~EditorShown']_vars

(***************************************************************************)
(* Properties of zoom and of the coordinate conversion.                    *)
(***************************************************************************)
\* the canvas is sized for the current page of the document at scale s
CanvasSizedAt(s) ==
  /\ canvas # NoCanvas
  /\ pdfDoc # NoDoc
  /\ currentPage \in 1..numPages(pdfDoc)
  /\ canvas.width * 100 = PageSize(pdfDoc, currentPage)[1] * s
  /\ canvas.height * 100 = PageSize(pdfDoc, currentPage)[2] * s

InZoomRange(s) == MinScale <= s /\ s <= MaxScale

\* C5 as claimed: with the page rendered at a scale of the zoom range, the
\* projected position and size of every run of the overlay are its point
\* position and size multiplied by the scale, and nothing else.
C5_ProjectionIsPointTimesScale ==
  (OverlayShown /\ InZoomRange(scale) /\ CanvasSizedAt(scale)) =>
    \A k \in 1..Len(OverlayItems) :
      LET textItem == OverlayItems[k]
          screenCoords == convertPdfToScreenCoords(textItem, canvas, currentViewport)
      IN /\ screenCoords.x = textItem.x * scale
         /\ screenCoords.y = textItem.y * scale
         /\ screenCoords.width = textItem.width * scale
         /\ screenCoords.height = textItem.height * scale

\* C5 as amended: with the page rendered at a scale of the zoom range, the
\* projected position of every run of the overlay is its point position
\* multiplied by the scale, and its projected width and height are its
\* point width and height multiplied by the scale but never less than 30
\* and 15 pixels.
C5_ProjectionWithMinimumBox ==
  (OverlayShown /\ InZoomRange(scale) /\ CanvasSizedAt(scale)) =>
    \A k \in 1..Len(OverlayItems) :
      LET textItem == OverlayItems[k]
          screenCoords == convertPdfToScreenCoords(textItem, canvas, currentViewport)
      IN /\ screenCoords.x = textItem.x * scale
         /\ screenCoords.y = textItem.y * scale
         /\ screenCoords.width = Max(textItem.width * scale, MinScreenWidth)
         /\ screenCoords.height = Max(textItem.height * scale, MinScreenHeight)

\* the overlay of page 1 at scale 2.0: the run "Hi" (20, 50, 12 x 10 points)
\* is placed at (40, 100) pixels in a box widened to 30 pixels
C5_Witness ==
  /\ OverlayShown
  /\ scale = 200
  /\ currentPage = 1
  /\ CanvasSizedAt(200)
  /\ Len(OverlayItems) = 2
  /\ convertPdfToScreenCoords(OverlayItems[1], canvas, currentViewport)
       = [x |-> 4000, y |-> 10000, width |-> 3000, height |-> 2000]

\* C10: while the editor shows a loaded document the zoom scale is within the supported
\* range, 0.5 to 3, whatever zoom and fit buttons were used and whatever the
\* size of the container.
C10_ScaleWithinZoomRange ==
  (EditorShown /\ pdfDoc # NoDoc) => InZoomRange(scale)

(***************************************************************************)
(* Properties of the annotations.                                          *)
(***************************************************************************)
\* a zoom step taken while the page is rendered at the current scale and the
\* annotation canvas shows committed annotations, no gesture in progress
ZoomOverShapes ==
  /\ scale' # scale
  /\ loads' = loads
  /\ pdfDoc # NoDoc
  /\ renders = << >>
  /\ canvas # NoCanvas
  /\ canvas.doc = pdfDoc
  /\ canvas.pageNum = currentPage
  /\ canvas.scale = scale
  /\ ~isDrawingRef
  /\ annotationCanvas # NoCanvas
  /\ annotationCanvas.shapes # << >>

\* C1: the points of an annotation are drawn at the same fraction of the
\* page at every scale: when a zoom takes the scale from s1 to s2, every point
\* drawn at pixel position p before is drawn at p * s2 / s1 afterwards.
C1_AnnotationsFollowTheScale ==
  [][ZoomOverShapes =>
       /\ annotationCanvas' # NoCanvas
       /\ Len(annotationCanvas'.shapes) = Len(annotationCanvas.shapes)
       /\ \A k \in 1..Len(annotationCanvas.shapes) :
            LET before == annotationCanvas.shapes[k].pts
                after == annotationCanvas'.shapes[k].pts
            IN /\ Len(after) = Len(before)
               /\ \A j \in 1..Len(before) :
                    /\ after[j][1] * scale = before[j][1] * scale'
                    /\ after[j][2] * scale = before[j][2] * scale']_vars

\* C7: a committed annotation is never changed: every step other than the
\* completion of a load and "New PDF" (pointer-down, pointer-move, pointer-up,
\* mode and tool buttons, navigation, zoom, render completions) leaves every
\* entry of the collection as it was and at its place; in particular a
\* pointer-move changes no entry, with or without a draft in progress.
C7_CommittedAnnotationsImmutable ==
  [][(loads' = loads /\ file' = file) =>
       /\ Len(annotations') >= Len(annotations)
       /\ \A i \in 1..Len(annotations) : annotations'[i] = annotations[i]]_vars

\* a rectangle was committed on page 1 at the default scale; since then the
\* user went to page 2, zoomed, and is dragging a second gesture
C7_Witness ==
  /\ annotations = << [type |-> "rectangle",
                       path |-> << <<100, 100>>, <<150, 150>> >>,
                       color |-> "#ff0000", pageIndex |-> 0] >>
  /\ currentPage = 2
  /\ scale # DefaultScale
  /\ isDrawingRef
  /\ currentAnnotationRef # NoRef
  /\ Len(currentAnnotationRef.path) = 2

(***************************************************************************)
(* Properties of export.                                                   *)
(***************************************************************************)
\* an export of a freshly loaded session without edits, after its page loop:
\* the runs it closed over are the extraction of the file it closed over
FreshExport(t) ==
  /\ t.stage = "saving"
  /\ t.items = extractTextFromPdf(t.file)

\* the item of the document a run was extracted from
NativeItem(f, id) == PageItems(f, id[1])[id[2] + 1]

DrawsOf(t, id) ==
  SelectSeq(t.ops, LAMBDA o: o.op = "drawText" /\ o.id = id)

\* one text draw, of the extracted text at the native placement with the
\* extracted font size
DrawnAsExtracted(t, run) ==
  /\ Len(DrawsOf(t, run.id)) = 1
  /\ LET d == DrawsOf(t, run.id)[1]
         native == NativeItem(t.file, run.id)
     IN /\ d.text = native.str
        /\ d.x = native.transform[5]
        /\ d.y = native.transform[6]
        /\ d.size = run.fontSize
        /\ d.pageIndex = run.id[1] - 1

\* C4 as claimed: the export of a freshly loaded session without edits draws
\* every extracted run: its extracted text at its native x and baseline y with
\* its extracted font size.
C4_EveryRunRedrawnInPlace ==
  \A i \in 1..Len(exports) :
    FreshExport(exports[i]) =>
      \A k \in 1..Len(exports[i].items) :
        DrawnAsExtracted(exports[i], exports[i].items[k])

\* C4 as amended: the export of a freshly loaded session without edits draws
\* every extracted run whose text is not blank and whose draw does not fail
\* with both fonts, once, as its extracted text at its native x and baseline
\* y with its extracted font size; a blank run and a run whose draw fails
\* with both fonts are not drawn.
C4_NonBlankRunsRedrawnInPlace ==
  \A i \in 1..Len(exports) :
    FreshExport(exports[i]) =>
      \A k \in 1..Len(exports[i].items) :
        LET run == exports[i].items[k]
        IN IF Trim(run.text) # << >> /\ run.id \notin exports[i].warned
           THEN DrawnAsExtracted(exports[i], run)
           ELSE DrawsOf(exports[i], run.id) = << >>

\* the page loop of an export of the freshly loaded two-page document: "Hi"
\* is drawn at (20, 250) in size 10, "A" at (150, 100) in size 8, the blank
\* run is not drawn
C4_Witness ==
  \E i \in 1..Len(exports) :
    /\ FreshExport(exports[i])
    /\ exports[i].file = "a.pdf"
    /\ exports[i].warned = {}
    /\ \E d \in {DrawsOf(exports[i], <<1, 0>>)} :
         Len(d) = 1 /\ d[1].x = 20 /\ d[1].y = 250 /\ d[1].size = 10
    /\ \E d \in {DrawsOf(exports[i], <<2, 0>>)} :
         Len(d) = 1 /\ d[1].x = 150 /\ d[1].y = 100 /\ d[1].size = 8
    /\ DrawsOf(exports[i], <<1, 1>>) = << >>

\* a step in which an export call ends
ExportEnds == Len(exports') < Len(exports)

\* the cover rectangles of a complete page loop: one for every run on a page
\* of the file
CoversEveryRun(t) ==
  Len(SelectSeq(t.ops, LAMBDA o: o.op = "drawRectangle"))
    = Len(SelectSeq(t.items, LAMBDA r: r.pageIndex < numPages(t.file)))

\* C9: an export call ends either with the download of the whole document,
\* after save, and a success message, or with no download and a failure
\* message; in both cases the call is over and no other call is started by
\* it; no other step hands anything to the download.
C9_ExportAllOrNothing ==
  [][/\ ExportEnds =>
          \E i \in 1..Len(exports) :
            /\ exports' = RemoveAt(exports, i)
            /\ isProcessing' = FALSE
            /\ \/ /\ exports[i].stage = "saving"
                  /\ CoversEveryRun(exports[i])
                  /\ downloads' = Append(downloads, Download(exports[i]))
                  /\ toast' = "Success!"
               \/ /\ downloads' = downloads
                  /\ toast' = "Failed to export PDF"
     /\ ~ExportEnds => downloads' = downloads]_vars

\* an export failed: the failure is shown, nothing was downloaded, no export
\* is running
C9_Witness ==
  /\ toast = "Failed to export PDF"
  /\ downloads = << >>
  /\ exports = << >>
  /\ ~isProcessing
  /\ pdfDoc # NoDoc

(***************************************************************************)
(* Properties of the edit mode.                                            *)
(***************************************************************************)
\* a step that changes the edit mode or the active tool
ModeStep == editingMode' # editingMode \/ selectedTool' # selectedTool

\* C11: a change of the edit mode or of the active annotation tool leaves
\* the text runs, with every committed edit, and the committed annotations
\* as they were.
C11_ModeSwitchKeepsData ==
  [][ModeStep => (textItems' = textItems /\ annotations' = annotations)]_vars

\* back in View after an edit made in EditText and a rectangle committed in
\* Annotate: both are still there
C11_Witness ==
  /\ editingMode = "view"
  /\ selectedTool = "rectangle"
  /\ Len(textItems) = 3
  /\ textItems[1].text = <<"O", "k">>
  /\ annotations = << [type |-> "rectangle",
                       path |-> << <<100, 100>>, <<150, 150>> >>,
                       color |-> "#ff0000", pageIndex |-> 0] >>

(***************************************************************************)
(* Properties of a load.                                                   *)
(***************************************************************************)
\* the step in which load i gets its parsed document
ParsedAt(i) ==
  /\ i \in 1..Len(loads)
  /\ loads[i].stage = "parsing"
  /\ Parses(loads[i].file)
  /\ loads' = [loads EXCEPT ![i].stage = "extracting"]

\* the step in which load i completes with its extracted runs
CompletedAt(i) ==
  /\ i \in 1..Len(loads)
  /\ loads[i].stage = "extracting"
  /\ ~ExtractFails(loads[i].file)
  /\ loads' = RemoveAt(loads, i)

\* C12 as claimed: when a load completes, the session holds exactly the runs
\* extracted from its document, no annotation, the first page as current page
\* and the default scale.
C12_CompletedLoadIsFresh ==
  [][\A i \in 1..MaxLoads :
       CompletedAt(i) =>
         /\ textItems' = extractTextFromPdf(loads[i].file)
         /\ annotations' = << >>
         /\ currentPage' = 1
         /\ scale' = DefaultScale]_vars

\* C12 as amended: the step in which the parse of a load succeeds installs
\* its document with no runs, no annotation, the first page and the default
\* scale, whatever the state was before; the step in which the load
\* completes sets the runs to exactly those extracted from its document and
\* leaves the annotations, the current page and the scale as they are then.
C12_LoadResetsAtParse ==
  [][\A i \in 1..MaxLoads :
       /\ ParsedAt(i) =>
            /\ pdfDoc' = loads[i].file
            /\ totalPages' = numPages(loads[i].file)
            /\ currentPage' = 1
            /\ textItems' = << >>
            /\ annotations' = << >>
            /\ scale' = DefaultScale
       /\ CompletedAt(i) =>
            /\ textItems' = extractTextFromPdf(loads[i].file)
            /\ toast' = "PDF loaded"
            /\ UNCHANGED << pdfDoc, annotations, currentPage, scale >>]_vars

\* the load of the two-page document has completed; the user had gone to
\* page 2 by then
C12_Witness ==
  /\ loads = << >>
  /\ toast = "PDF loaded"
  /\ pdfDoc = "a.pdf"
  /\ textItems = extractTextFromPdf("a.pdf")
  /\ currentPage = 2
  /\ lastNav.target = 2

\* the runs are runs of document f: its extraction, up to edited texts
RunsOf(f) ==
  /\ Len(textItems) = Len(extractTextFromPdf(f))
  /\ \A k \in 1..Len(textItems) :
       [textItems[k] EXCEPT !.text = << >>]
         = [extractTextFromPdf(f)[k] EXCEPT !.text = << >>]

\* C13: whenever Export is enabled with a file and a document handle
\* present, the file, the document handle, the page count and the text runs
\* belong to one document.
C13_ExportSeesOneDocument ==
  (EditorShown /\ ~isProcessing /\ file # NoDoc /\ pdfDoc # NoDoc) =>
    /\ pdfDoc = file
    /\ totalPages = numPages(file)
    /\ (textItems = << >> \/ RunsOf(file))

(***************************************************************************)
(* What an export depends on.                                              *)
(***************************************************************************)
SameInputs(d, e) ==
  /\ d.file = e.file
  /\ d.items = e.items
  /\ d.retried = e.retried
  /\ d.warned = e.warned

C15_ExpiredClipIsNotRetrievable ==
  (response # NoResponse /\ response.op = "access" /\ response.status = 200)
    => response.selectedAt - response.lastAccessed <= OneHour

(***************************************************************************)
(* The order of the operations of an export.                               *)
(***************************************************************************)
\* the operation sequences built so far: of the exports that are saving
\* and of the files handed over
BuiltOps ==
  { exports[i].ops : i \in { j \in 1..Len(exports) :
                               exports[j].stage = "saving" } }
    \cup { downloads[i].ops : i \in 1..Len(downloads) }

CoverBeforeText(ops) ==
  \A a, b \in 1..Len(ops) :
    (a < b /\ ops[a].op = "drawText" /\ ops[b].op = "drawRectangle")
      => ops[a].pageIndex # ops[b].pageIndex

\* C16: in every export, on every page, no drawRectangle call follows a
\* drawText call of the same page: all cover rectangles of a page are drawn
\* before any text of that page.
C16_CoversBeforeTexts == \A ops \in BuiltOps : CoverBeforeText(ops)

\* a.pdf has been exported after an edit: page 1 got its two rectangles and
\* then the edited text, page 2 its rectangle after the text of page 1
C16_Witness ==
  /\ downloads # << >>
  /\ downloads[1].file = "a.pdf"
  /\ Len(downloads[1].ops) = 5
  /\ downloads[1].ops[1].op = "drawRectangle"
  /\ downloads[1].ops[2].op = "drawRectangle"
  /\ downloads[1].ops[3].op = "drawText"
  /\ downloads[1].ops[3].text = <<"O", "k">>
  /\ downloads[1].ops[4].op = "drawRectangle"
  /\ downloads[1].ops[4].pageIndex = 1
  /\ downloads[1].ops[5].op = "drawText"

(***************************************************************************)
(* The cover rectangle and the run's box.                                  *)
(***************************************************************************)
\* the baseline of a run in the bottom-left-origin space of its page
NativeY(run) == run.pageHeight - run.y

\* the rectangle  [x - pad, x + w + pad] x [bottom - pad, bottom + h + pad]
\* with  bottom = pageHeight - y - h  has been drawn for the run
CoverDrawnFor(run, o) ==
  /\ o.op = "drawRectangle"
  /\ o.pageIndex = run.pageIndex
  /\ o.x = run.x - ExportPadding
  /\ o.y = (run.pageHeight - run.y - run.height) - ExportPadding
  /\ o.width = run.width + ExportPadding + ExportPadding
  /\ o.height = run.height + ExportPadding + ExportPadding

\* the rectangle contains  [nativeX, nativeX + w] x [nativeY, nativeY + h]
ContainsRunBox(run, o) ==
  /\ o.x <= run.x
  /\ run.x + run.width <= o.x + o.width
  /\ o.y <= NativeY(run)
  /\ NativeY(run) + run.height <= o.y + o.height

\* the runs an export closed over are, up to their texts, the runs
\* extracted from the file it closed over
ExportOfOneDocument(d) ==
  /\ Len(d.items) = Len(extractTextFromPdf(d.file))
  /\ \A k \in 1..Len(d.items) :
       [d.items[k] EXCEPT !.text = << >>]
         = [extractTextFromPdf(d.file)[k] EXCEPT !.text = << >>]

\* C17: in every file handed over, for every run of the document, the
\* cover rectangle drawn for it contains the box of width w and height h
\* that stands on the run's native baseline.
C17_CoverContainsRunBox ==
  \A i \in 1..Len(downloads) :
    ExportOfOneDocument(downloads[i]) =>
      \A k \in 1..Len(downloads[i].items) :
        \E a \in 1..Len(downloads[i].ops) :
          /\ CoverDrawnFor(downloads[i].items[k], downloads[i].ops[a])
          /\ ContainsRunBox(downloads[i].items[k], downloads[i].ops[a])

(***************************************************************************)
(* Which runs an export erases and which it redraws.                       *)
(***************************************************************************)
IdsOf(runs) == [k \in 1..Len(runs) |-> runs[k].id]

NonBlank(run) == Trim(run.text) # << >>

\* on page p of the file of d: one cover rectangle per run of the page, in
\* extraction order; the runs drawn are the non-blank ones but those whose
\* two draws both failed, each once and in extraction order
PageErasedAndRedrawn(d, p) ==
  LET runs == SelectSeq(d.items, LAMBDA run : run.pageIndex = p)
      rects == SelectSeq(d.ops, LAMBDA o : o.op = "drawRectangle"
                                            /\ o.pageIndex = p)
      texts == SelectSeq(d.ops, LAMBDA o : o.op = "drawText"
                                            /\ o.pageIndex = p)
      drawn == SelectSeq(runs, LAMBDA run : NonBlank(run)
                                             /\ run.id \notin d.warned)
  IN /\ Len(rects) = Len(runs)
     /\ \A k \in 1..Len(runs) : CoverDrawnFor(runs[k], rects[k])
     /\ IdsOf(texts) = IdsOf(drawn)
     /\ \A k \in 1..Len(texts) : texts[k].text = drawn[k].text

\* C18: in every file handed over, every run of every page is erased by a
\* cover rectangle, and a text draw is attempted for a run if and only if
\* its text is non-empty after trimming, once and in extraction order: the
\* draws that failed (retried, warned) are of non-blank runs only, and a
\* blank run is erased and not redrawn.
C18_ErasesAllRedrawsNonBlank ==
  \A i \in 1..Len(downloads) :
    LET d == downloads[i]
    IN /\ \A p \in 0..(numPages(d.file) - 1) : PageErasedAndRedrawn(d, p)
       /\ \A k \in 1..Len(d.items) :
            d.items[k].id \in (d.retried \cup d.warned)
              => NonBlank(d.items[k])

\* a.pdf has been exported: its whitespace-only run got a rectangle and no
\* text, the two other runs a rectangle and a text
C18_Witness ==
  /\ Len(downloads) = 1
  /\ downloads[1].file = "a.pdf"
  /\ Len(downloads[1].items) = 3
  /\ downloads[1].items[2].text = <<" ">>
  /\ IdsOf(SelectSeq(downloads[1].ops, LAMBDA o : o.op = "drawText"))
       = << <<1, 0>>, <<2, 0>> >>
  /\ Len(SelectSeq(downloads[1].ops, LAMBDA o : o.op = "drawRectangle")) = 3

(***************************************************************************)
(* Draw failures during an export.                                         *)
(***************************************************************************)
\* the exports whose page loop has ended (they are at save, or were handed
\* over), as handed over
PageLoopDone ==
  { Download(exports[i]) : i \in { j \in 1..Len(exports) :
                                     exports[j].stage = "saving" } }
    \cup { downloads[i] : i \in 1..Len(downloads) }

\* the run ends as drawn once with the normal font, drawn once with the
\* fallback font after one failure, or skipped after two
RunSettled(d, run) ==
  LET draws == SelectSeq(d.ops, LAMBDA o : o.op = "drawText" /\ o.id = run.id)
  IN IF run.id \notin d.retried
       THEN Len(draws) = 1 /\ draws[1].font = "Helvetica"
     ELSE IF run.id \notin d.warned
       THEN Len(draws) = 1 /\ draws[1].font = "default"
     ELSE draws = << >>

\* C19: a draw failure of a run never ends the export: in every export that
\* parsed its file, whatever draws failed, the page loop runs to its end
\* and every non-blank run of every page ends as drawn with the normal
\* font, drawn with the fallback font (one retry), or skipped (the retry
\* failed too), also the runs behind a run that failed.
C19_DrawFailureNeverAborts ==
  \A d \in PageLoopDone :
    /\ d.warned \subseteq d.retried
    /\ \A k \in 1..Len(d.items) :
         (NonBlank(d.items[k]) /\ d.items[k].pageIndex < numPages(d.file))
           => RunSettled(d, d.items[k])

\* a.pdf has been exported with both draws of its first run failing and the
\* first draw of the run of page 2 failing: the first run is missing, the
\* edited second run behind it is drawn, the run of page 2 is drawn with the
\* fallback font, and the file was handed over
C19_Witness ==
  /\ Len(downloads) = 1
  /\ downloads[1].file = "a.pdf"
  /\ downloads[1].warned = { <<1, 0>> }
  /\ downloads[1].retried = { <<1, 0>>, <<2, 0>> }
  /\ IdsOf(SelectSeq(downloads[1].ops, LAMBDA o : o.op = "drawText"))
       = << <<1, 1>>, <<2, 0>> >>
  /\ toast = "Success!"

(***************************************************************************)
(* Renders that overlap.                                                   *)
(***************************************************************************)
\* the surface shows the current page of the document at the current scale:
\* what is painted, the size of the canvas and the stored viewport
SurfaceCurrent ==
  /\ canvas # NoCanvas
  /\ canvas.doc = pdfDoc
  /\ canvas.pageNum = currentPage
  /\ canvas.scale = scale
  /\ CanvasSizedAt(scale)
  /\ currentViewport = [doc |-> pdfDoc, pageNum |-> currentPage,
                        scale |-> scale]

\* C20: after all pending renders (none of which failed) have finished, the
\* surface shows the current page at the current scale, whatever page
\* changes and zoom steps were made while renders were in flight.
C20_SettledSurfaceIsCurrent ==
  (pdfDoc # NoDoc /\ loads = << >> /\ renders = << >> /\ ~crashed
     /\ currentPage \in 1..totalPages)
    => SurfaceCurrent

(***************************************************************************)
(* The text overlay and the cover pass.                                    *)
(***************************************************************************)
\* the overlay has editable boxes that take input
OverlayAcceptsInput == OverlayShown /\ OverlayItems # << >>

\* the raster shows the current page with its text regions painted over
PageErased ==
  /\ canvas # NoCanvas
  /\ canvas.doc = pdfDoc
  /\ canvas.pageNum = currentPage
  /\ canvas.covered

\* C21: whenever the editable text overlay of the current page accepts
\* input, the raster of that page has had its text regions erased by the
\* cover pass.
C21_InputOnlyOverErasedPage == OverlayAcceptsInput => PageErased

(***************************************************************************)
(* The geometry of the runs held.                                          *)
(***************************************************************************)
\* C22: every text run held lies on its page: its origin has x in
\* [0, pageWidth] and y in [0, pageHeight].
C22_RunsLieOnTheirPage ==
  \A k \in 1..Len(textItems) :
    (file # NoDoc /\ pdfDoc = file) =>
    /\ 0 <= textItems[k].x /\ textItems[k].x <= textItems[k].pageWidth
    /\ 0 <= textItems[k].y /\ textItems[k].y <= textItems[k].pageHeight

\* C23: the font size of a run is the larger of |a| and |d| of the placement
\* matrix [a, b, c, d, e, f] of the item it was extracted from, for every
\* item with both of them non-zero.
C23_FontSizeIsLargerOfAandD ==
  (file # NoDoc /\ pdfDoc = file /\ loads = << >>) =>
    \A k \in 1..Len(textItems) :
      LET transform == NativeItem(file, textItems[k].id).transform
      IN (transform[1] # 0 /\ transform[4] # 0)
           => textItems[k].fontSize = Max(Abs(transform[1]), Abs(transform[4]))

(***************************************************************************)
(* The edit mode and the active tool.                                      *)
(***************************************************************************)
\* the toolbar offers a click that makes mode the edit mode
ModeOffered(mode) ==
  ENABLED ((ViewButton \/ EditTextButton \/ AnnotateButton)
             /\ editingMode' = mode)

\* the toolbar offers a click that makes tool the active tool of Annotate
ToolOffered(tool) ==
  ENABLED ((AnnotateButton \/ \E t \in Tools : ToolButton(t))
             /\ editingMode' = "annotate" /\ selectedTool' = tool)

\* the values of selectedTool that draw: "text" is the stroke tool (it makes
\* annotations of type "draw")
DrawingTools == {"text", "highlight", "rectangle", "circle"}

\* C24: the mode is one of view, edit and annotate; while the editor is shown every mode can be entered from every other by a
\* toolbar click; in annotate mode each of the four drawing tools (stroke,
\* highlight, rectangle, circle) can be made the active tool by a toolbar
\* click, and the active tool is a drawing tool, never the pointer.
C24_ModesAndTools ==
  /\ editingMode \in {"view", "edit", "annotate"}
  /\ EditorShown =>
       \A mode \in {"view", "edit", "annotate"} : ModeOffered(mode)
  /\ (EditorShown /\ editingMode = "annotate") =>
       /\ selectedTool \in DrawingTools
       /\ \A tool \in DrawingTools : ToolOffered(tool)

(***************************************************************************)
(* The mode gates the gestures.                                            *)
(***************************************************************************)
\* the text of some run is another one after the step
RunTextChanged(k) ==
  \E j \in 1..Len(textItems') :
    /\ textItems'[j].id = textItems[k].id
    /\ textItems'[j].text # textItems[k].text

\* the step starts a draft (a pointer-down): the new draft has one point
DraftCreated ==
  /\ currentAnnotationRef' # currentAnnotationRef
  /\ currentAnnotationRef' # NoRef
  /\ Len(currentAnnotationRef'.path) = 1

\* the step adds a point to the draft (a pointer-move)
DraftExtended ==
  /\ currentAnnotationRef' # currentAnnotationRef
  /\ currentAnnotationRef' # NoRef
  /\ Len(currentAnnotationRef'.path) > 1

AnnotationCommitted ==
  /\ annotations' # annotations
  /\ annotations' # << >>

\* C25: a step creates, extends or commits an annotation only in annotate
\* mode, and the annotation carries the page that was shown when its gesture
\* started: the draft is created with the current page, keeps it while it
\* is extended, and is the entry the commit appends.  A step changes the
\* text of a run only in edit mode and only for a run of the current page.
\* In view mode no step changes a run's text, the draft or the collection
\* of annotations.
C25_ModeGatesGestures ==
  [][ /\ DraftCreated =>
           /\ editingMode = "annotate"
           /\ currentAnnotationRef'.pageIndex = currentPage - 1
      /\ DraftExtended =>
           /\ editingMode = "annotate"
           /\ currentAnnotationRef # NoRef
           /\ currentAnnotationRef'.pageIndex = currentAnnotationRef.pageIndex
      /\ AnnotationCommitted =>
           /\ editingMode = "annotate"
           /\ currentAnnotationRef # NoRef
           /\ annotations' = Append(annotations, currentAnnotationRef)
      /\ \A k \in 1..Len(textItems) :
           RunTextChanged(k) =>
             /\ editingMode = "edit"
             /\ textItems[k].pageIndex = currentPage - 1
      /\ editingMode = "view" =>
           /\ \A k \in 1..Len(textItems) : ~RunTextChanged(k)
           /\ ~DraftCreated /\ ~DraftExtended /\ ~AnnotationCommitted
    ]_vars

(***************************************************************************)
(* The current page stays a page of the document.                          *)
(***************************************************************************)
\* C26: whenever the editor is shown (a file is set), the current page is
\* at least 1 and, once a document is displayed, at most the number of
\* pages of that document, also while a load is in progress.
C26_CurrentPageInRange ==
  EditorShown =>
    /\ 1 <= currentPage
    /\ pdfDoc # NoDoc => currentPage <= numPages(pdfDoc)

(***************************************************************************)
(* The busy flag.                                                          *)
(***************************************************************************)
WorkInFlight == loads # << >> \/ exports # << >>

\* C28: isProcessing is true whenever a load or an export is in flight and
\* false once none is, so that the Export button (disabled while
\* isProcessing) cannot start an export while a load or another export runs,
\* and the flag is false after the last of them has ended.
C28_FlagTracksWork == isProcessing <=> WorkInFlight

(***************************************************************************)
(* A multi-file upload is all-or-nothing.                                  *)
(***************************************************************************)
\* the step answers the upload request i
UploadAnswered(i) ==
  /\ i \in 1..Len(requests)
  /\ requests[i].op = "upload"
  /\ requests' = RemoveAt(requests, i)
  /\ response'.op = "upload"

\* the files the other requests have stored and the files the rows name
FilesOfOthers(i) ==
  UNION ({ Range(requests[j].uploadedFiles) :
             j \in { n \in 1..Len(requests) :
                       n # i /\ requests[n].op = "upload" } }
         \cup { Range(clips[code].file_path) :
                  code \in { c \in Codes : clips[c] # NoClip } })

\* the answer to a failed upload: an error, none of the files the request
\* stored is left, the request made no row, nothing else was removed
UploadFailedCleanly(i) ==
  /\ response'.status = 500
  /\ Range(requests[i].uploadedFiles) \cap storage' = {}
  /\ clips' = clips
  /\ storage' = storage \ Range(requests[i].uploadedFiles)
  /\ FilesOfOthers(i) \cap storage \subseteq storage'

\* the answer to a successful upload: the code, every file stored under it,
\* one row, under that code, that names them all
UploadSucceeded(i) ==
  LET r == requests[i]
  IN /\ response'.status = 200
     /\ response'.accessCode = r.accessCode
     /\ clips[r.accessCode] = NoClip
     /\ clips'[r.accessCode] # NoClip
     /\ clips'[r.accessCode].type = "file"
     /\ clips'[r.accessCode].file_path =
          [k \in 1..Len(r.files) |-> FilePath(r.accessCode, r.files[k])]
     /\ Range(clips'[r.accessCode].file_path) \subseteq storage'
     /\ \A c \in Codes \ {r.accessCode} : clips'[c] = clips[c]

RowHasItsFiles(code) ==
  (clips[code] # NoClip /\ clips[code].type = "file")
    => Range(clips[code].file_path) \subseteq storage

\* C30: every file clip row that exists has all its files in storage; the
\* formula asks for it in the states where no request is in flight, after
\* any interleaving of uploads, accesses, deletes and cleanup runs.
C30_RowsHaveTheirFiles ==
  requests = << >> => \A code \in Codes : RowHasItsFiles(code)

(***************************************************************************)
(* The end of a gesture.                                                   *)
(***************************************************************************)
\* the step ends a draft: the ref held one and is cleared
DraftEnded ==
  /\ currentAnnotationRef # NoRef
  /\ currentAnnotationRef' = NoRef

\* C27: a pointer-up or pointer-leave that ends a draft appends exactly one
\* entry to the collection, the draft as it stood when the gesture ended,
\* never a null entry; an end without a draft (the pointer-leave after the
\* pointer-up) appends nothing.
C27_EndAppendsTheDraftOnce ==
  [][ /\ DraftEnded => annotations' = Append(annotations, currentAnnotationRef)
      /\ (~DraftEnded /\ isDrawingRef' = FALSE) =>
           (annotations' = annotations \/ annotations' = << >>)
    ]_vars

====
